---- MODULE Spec2Model ----
(***************************************************************************)
(* Display state machine of typingincolor/unicorn.                         *)
(*                                                                         *)
(* Three implementations live in the repository and are modelled side by   *)
(* side:                                                                   *)
(*   dev   the device program      (main.py + effects.py)                  *)
(*   sim   the terminal simulator  (simulator.py)                          *)
(*   core  the shared renderer     (core.py: DisplayState + Renderer)      *)
(*                                                                         *)
(* Strings are sequences of one-character strings, so that lower(),        *)
(* upper(), int(), split(",") and json.loads() are computed character by   *)
(* character as the interpreter computes them.  Scroll cursors of the      *)
(* float-stepped implementations (sim, core) are kept in tenths of a pixel *)
(* (16 is 160, the 0.4 step is 4); the device steps by whole pixels.       *)
(***************************************************************************)
EXTENDS Integers, Sequences, FiniteSets, TLC

\* ------------------------------------------------------------------------
\* Program constants
\* ------------------------------------------------------------------------
WIDTH == 16
HEIGHT == 16

\* ------------------------------------------------------------------------
\* Bounds of the model
\* ------------------------------------------------------------------------
\* columns and rows of the modelled heat grid / drop list (16 in the program)
GridW == 3
GridH == 2
\* render calls explored per behaviour (all implementations together)
MaxTicks == 1

\* ------------------------------------------------------------------------
\* str.lower(), str.upper()
\* ------------------------------------------------------------------------
UpperChars == <<"A","B","C","D","E","F","G","H","I","J","K","L","M",
                "N","O","P","Q","R","S","T","U","V","W","X","Y","Z">>
LowerChars == <<"a","b","c","d","e","f","g","h","i","j","k","l","m",
                "n","o","p","q","r","s","t","u","v","w","x","y","z">>

IndexIn(seq, c) == CHOOSE i \in 1..Len(seq) : seq[i] = c
Occurs(seq, c) == \E i \in 1..Len(seq) : seq[i] = c

\* the case mappings as functions of the character
LowerMap == [c \in {UpperChars[i] : i \in 1..Len(UpperChars)} |-> LowerChars[IndexIn(UpperChars, c)]]
UpperMap == [c \in {LowerChars[i] : i \in 1..Len(LowerChars)} |-> UpperChars[IndexIn(LowerChars, c)]]

LowerChar(c) == IF c \in DOMAIN LowerMap THEN LowerMap[c] ELSE c
UpperChar(c) == IF c \in DOMAIN UpperMap THEN UpperMap[c] ELSE c

Lower(s) == [i \in 1..Len(s) |-> LowerChar(s[i])]
Upper(s) == [i \in 1..Len(s) |-> UpperChar(s[i])]

\* ------------------------------------------------------------------------
\* int(str): optional surrounding whitespace, optional sign, decimal digits
\* (digit-group underscores are not modelled; no payload below uses them)
\* ------------------------------------------------------------------------
Digits == <<"0","1","2","3","4","5","6","7","8","9">>
DigitMap == [c \in {Digits[i] : i \in 1..Len(Digits)} |-> IndexIn(Digits, c) - 1]
IsDigit(c) == c \in DOMAIN DigitMap
DigitVal(c) == DigitMap[c]
IsSpace(c) == c \in {" ", "\t", "\n", "\r"}

RECURSIVE DigitsValue(_)
DigitsValue(s) ==
    IF Len(s) = 0 THEN 0
    ELSE DigitsValue(SubSeq(s, 1, Len(s) - 1)) * 10 + DigitVal(s[Len(s)])

RECURSIVE LStrip(_)
LStrip(s) == IF Len(s) > 0 /\ IsSpace(s[1]) THEN LStrip(Tail(s)) ELSE s
RECURSIVE RStrip(_)
RStrip(s) == IF Len(s) > 0 /\ IsSpace(s[Len(s)])
             THEN RStrip(SubSeq(s, 1, Len(s) - 1)) ELSE s
Strip(s) == RStrip(LStrip(s))

\* [ok |-> FALSE] stands for ValueError
IntParse(s) ==
    LET t == Strip(s)
        signed == Len(t) > 0 /\ t[1] \in {"+", "-"}
        neg == Len(t) > 0 /\ t[1] = "-"
        body == IF signed THEN Tail(t) ELSE t
    IN  IF Len(body) > 0 /\ \A i \in 1..Len(body) : IsDigit(body[i])
        THEN [ok |-> TRUE, val |-> (IF neg THEN 0 - DigitsValue(body) ELSE DigitsValue(body))]
        ELSE [ok |-> FALSE, val |-> 0]

\* ------------------------------------------------------------------------
\* str.split(",")
\* ------------------------------------------------------------------------
RECURSIVE SplitComma(_)
SplitComma(s) ==
    IF ~Occurs(s, ",") THEN <<s>>
    ELSE LET k == CHOOSE i \in 1..Len(s) : s[i] = "," /\ \A j \in 1..(i - 1) : s[j] # ","
         IN  <<SubSeq(s, 1, k - 1)>> \o SplitComma(SubSeq(s, k + 1, Len(s)))

\* ------------------------------------------------------------------------
\* json.loads(str), for the JSON texts used as payloads: a string, an
\* integer, or an object whose members are strings or integers.  A JSON
\* value is a record [t, s, n, m]; members of an object are [t, s, n].
\* Anything this parser rejects stands for ValueError.
\* ------------------------------------------------------------------------
Quote == "\""
JFail == [ok |-> FALSE, pos |-> 0, t |-> "none", s |-> <<>>, n |-> 0]

RECURSIVE SkipWs(_, _)
SkipWs(s, i) == IF i <= Len(s) /\ IsSpace(s[i]) THEN SkipWs(s, i + 1) ELSE i

RECURSIVE DigitsEnd(_, _)
DigitsEnd(s, i) == IF i <= Len(s) /\ IsDigit(s[i]) THEN DigitsEnd(s, i + 1) ELSE i

\* a scalar at position i: [ok, pos (first position after it), t, s, n]
JScalarAt(s, i) ==
    IF i > Len(s) THEN JFail
    ELSE IF s[i] = Quote THEN
        IF \E k \in (i + 1)..Len(s) : s[k] = Quote
        THEN LET k == CHOOSE k \in (i + 1)..Len(s) :
                        s[k] = Quote /\ \A j \in (i + 1)..(k - 1) : s[j] # Quote
                 body == SubSeq(s, i + 1, k - 1)
             IN  IF Occurs(body, "\\") THEN JFail
                 ELSE [ok |-> TRUE, pos |-> k + 1, t |-> "str", s |-> body, n |-> 0]
        ELSE JFail
    ELSE LET neg == s[i] = "-"
             d0 == IF neg THEN i + 1 ELSE i
             d1 == DigitsEnd(s, d0)
             body == SubSeq(s, d0, d1 - 1)
         IN  IF d1 = d0 \/ (Len(body) > 1 /\ body[1] = "0") THEN JFail
             ELSE [ok |-> TRUE, pos |-> d1, t |-> "num", s |-> <<>>,
                   n |-> (IF neg THEN 0 - DigitsValue(body) ELSE DigitsValue(body))]

JMember(v) == [t |-> v.t, s |-> v.s, n |-> v.n]

\* the members after position i of an object, acc the members read so far;
\* first is TRUE right after the opening brace
RECURSIVE JMembersAt(_, _, _, _)
JMembersAt(s, i, acc, first) ==
    LET a == SkipWs(s, i)
    IN  IF a > Len(s) THEN [ok |-> FALSE, pos |-> 0, m |-> acc]
        ELSE IF first /\ s[a] = "}" THEN [ok |-> TRUE, pos |-> a + 1, m |-> acc]
        ELSE LET key == JScalarAt(s, a)
                 c == SkipWs(s, key.pos)
                 val == JScalarAt(s, SkipWs(s, c + 1))
                 e == SkipWs(s, val.pos)
                 acc2 == (key.s :> JMember(val)) @@ acc
             IN  IF ~key.ok \/ key.t # "str" \/ c > Len(s) THEN [ok |-> FALSE, pos |-> 0, m |-> acc]
                 ELSE IF s[c] # ":" \/ ~val.ok \/ e > Len(s) THEN [ok |-> FALSE, pos |-> 0, m |-> acc]
                 ELSE IF s[e] = "}" THEN [ok |-> TRUE, pos |-> e + 1, m |-> acc2]
                 ELSE IF s[e] = "," THEN JMembersAt(s, e + 1, acc2, FALSE)
                 ELSE [ok |-> FALSE, pos |-> 0, m |-> acc]

JNoMembers == <<>>
JValue(t, s, n, m) == [t |-> t, s |-> s, n |-> n, m |-> m]

\* json.loads: [ok |-> FALSE] stands for ValueError
JsonLoads(s) ==
    LET a == SkipWs(s, 1)
        bad == [ok |-> FALSE, val |-> JValue("none", <<>>, 0, JNoMembers)]
    IN  IF a > Len(s) THEN bad
        ELSE IF s[a] = "{" THEN
            LET r == JMembersAt(s, a + 1, JNoMembers, TRUE)
            IN  IF r.ok /\ SkipWs(s, r.pos) > Len(s)
                THEN [ok |-> TRUE, val |-> JValue("obj", <<>>, 0, r.m)]
                ELSE bad
        ELSE LET r == JScalarAt(s, a)
             IN  IF r.ok /\ SkipWs(s, r.pos) > Len(s)
                 THEN [ok |-> TRUE, val |-> JValue(r.t, r.s, r.n, JNoMembers)]
                 ELSE bad

\* ------------------------------------------------------------------------
\* FONT, measure_text (core.py and simulator.py hold the same table)
\* ------------------------------------------------------------------------
Range(seq) == {seq[i] : i \in 1..Len(seq)}
FontChars == Range(UpperChars) \cup Range(Digits) \cup {" ", "!", ":", "-", ".", "?"}
GlyphWidth(c) ==
    IF c \in {"M", "T", "V", "W", "Y"} THEN 5
    ELSE IF c \in {"I", "1", "-"} THEN 3
    ELSE IF c = " " THEN 2
    ELSE IF c \in {"!", ":", "."} THEN 1
    ELSE 4

RECURSIVE SumWidths(_)
SumWidths(s) ==
    IF Len(s) = 0 THEN 0
    ELSE (IF s[1] \in FontChars THEN GlyphWidth(s[1]) + 1 ELSE 4) + SumWidths(Tail(s))

measure_text(text) == SumWidths(Upper(text))

\* draw_text calls set_pixel for every set bit: every glyph but the space has one
HasInk(text) == \E i \in 1..Len(text) : UpperChar(text[i]) \in (FontChars \ {" "})

\* ------------------------------------------------------------------------
\* Names
\* ------------------------------------------------------------------------
S_none == <<"n","o","n","e">>
S_clock == <<"c","l","o","c","k">>
S_rainbow == <<"r","a","i","n","b","o","w">>
S_fire == <<"f","i","r","e">>
S_plasma == <<"p","l","a","s","m","a">>
S_sparkle == <<"s","p","a","r","k","l","e">>
S_matrix == <<"m","a","t","r","i","x">>
S_gradient == <<"g","r","a","d","i","e","n","t">>
S_disco == <<"d","i","s","c","o">>
S_empty == <<>>

\* core.EFFECTS, Effects.available
EFFECTS == {S_rainbow, S_fire, S_plasma, S_sparkle, S_matrix, S_gradient}

\* the words a power payload and a sensor status are compared with
OnWords == {<<"o","n">>, <<"t","r","u","e">>, <<"1">>}
OpenWords == {<<"o","p","e","n">>} \cup OnWords

\* logical topics (config.MQTT_TOPIC_*)
Topics == {"text", "brightness", "color", "effect", "power", "sensors"}

\* ------------------------------------------------------------------------
\* Payloads published on the command topics
\* ------------------------------------------------------------------------
TextPayloads == {S_empty, <<"H","i">>}
BrightnessPayloads == {<<" ","2","0","0">>, <<"a","b","c">>, <<"1",".","5">>}
\* integers at and beyond the ends of 0..255: "300", "-5", "255", "0"
WideBrightnessPayloads == {<<"3","0","0">>, <<"-","5">>, <<"2","5","5">>, <<"0">>}
ColorPayloads == {<<"1","0",",","2","0",",","3","0">>, <<"1","0",",","2","0">>,
                  <<"1",",","2",",","3",",","4">>, <<"1","0",",","x",",","3","0">>}
EffectPayloads == {<<"F","i","r","e">>, <<"C","l","o","c","k">>, <<"N","o","n","e">>, S_disco}
PowerPayloads == {<<"O","N">>, <<"1">>, <<"o","f","f">>, <<"y","e","s">>}
\* {"f":"closed","b":"ON"}   {"g":"0"}   5   {"f":"open"
SensorPayloads ==
    { <<"{",Quote,"f",Quote,":",Quote,"c","l","o","s","e","d",Quote,",",
            Quote,"b",Quote,":",Quote,"O","N",Quote,"}">>,
      <<"{",Quote,"g",Quote,":",Quote,"0",Quote,"}">>,
      <<"5">>,
      <<"{",Quote,"f",Quote,":",Quote,"o","p","e","n",Quote>> }

PayloadsOf(topic) ==
    CASE topic = "text" -> TextPayloads
      [] topic = "brightness" -> BrightnessPayloads
      [] topic = "color" -> ColorPayloads
      [] topic = "effect" -> EffectPayloads
      [] topic = "power" -> PowerPayloads
      [] topic = "sensors" -> SensorPayloads

\* ------------------------------------------------------------------------
\* Shared pieces of the two on_message handlers
\* ------------------------------------------------------------------------
\* msg.lower() in ("on", "true", "1")
PowerPayloadOn(msg) == Lower(msg) \in OnWords

\* a variant of ColorParse that unpacks the first three components of a longer list
ColorParse_FirstThree(msg) ==
    LET parts == SplitComma(msg)
        ints == [i \in 1..Len(parts) |-> IntParse(parts[i])]
    IN  IF (\A i \in 1..Len(parts) : ints[i].ok) /\ Len(parts) >= 3
        THEN [ok |-> TRUE, val |-> <<ints[1].val, ints[2].val, ints[3].val>>]
        ELSE [ok |-> FALSE, val |-> <<0, 0, 0>>]

\* r, g, b = [int(x) for x in msg.split(",")]; ok is FALSE for ValueError
\* (a component that is no integer, or an unpacking of other than 3 values)
ColorParse(msg) ==
    LET parts == SplitComma(msg)
        ints == [i \in 1..Len(parts) |-> IntParse(parts[i])]
    IN  IF (\A i \in 1..Len(parts) : ints[i].ok) /\ Len(parts) = 3
        THEN [ok |-> TRUE, val |-> <<ints[1].val, ints[2].val, ints[3].val>>]
        ELSE [ok |-> FALSE, val |-> <<0, 0, 0>>]

\* int(msg), the color unpacking and json.loads(msg) of each payload that is
\* published, computed once
IntParsed == [msg \in BrightnessPayloads \cup WideBrightnessPayloads |-> IntParse(msg)]
ColorParsed == [msg \in ColorPayloads |-> ColorParse(msg)]
JsonLoaded == [msg \in SensorPayloads |-> JsonLoads(msg)]

\* ------------------------------------------------------------------------
\* Effect memory
\* ------------------------------------------------------------------------
Cols == 0..(GridW - 1)
Rows == 0..(GridH - 1)
ZeroHeat == [cx \in Cols |-> [cy \in Rows |-> 0]]

\* random.randint(-HEIGHT, 0), random.uniform(0.1, 0.3) per column, in tenths
InitDrops == [cx \in Cols |-> [y |-> 0 - 10 * cx, speed |-> 3]]

Max(a, b) == IF a >= b THEN a ELSE b
Min(a, b) == IF a <= b THEN a ELSE b
\* int(float): truncation toward zero, of a value in tenths
TruncTenths(t) == IF t >= 0 THEN t \div 10 ELSE 0 - ((0 - t) \div 10)

\* --- fire (core.py _render_fire, effects.py _fire, simulator.py render_fire)
\* cool: cell -> amount drawn in 0..3; ign: column -> 0 (no ignition) or the
\* amount drawn in 160..255
FireCool(heat, cool) ==
    [cx \in Cols |-> [cy \in Rows |-> Max(0, heat[cx][cy] - cool[cx][cy])]]

\* the rise pass writes in place, column by column, rows top-1 down to 1:
\* step k (0-based) writes cell (k div (GridH-1), GridH-1 - k mod (GridH-1))
RECURSIVE FireRiseFrom(_, _)
FireRiseFrom(heat, k) ==
    IF GridH < 2 \/ k >= GridW * (GridH - 1) THEN heat
    ELSE LET cx == k \div (GridH - 1)
             cy == (GridH - 1) - (k % (GridH - 1))
             v == (heat[cx][cy - 1] + heat[(cx - 1) % GridW][cy - 1]
                   + heat[(cx + 1) % GridW][cy - 1]) \div 3
         IN  FireRiseFrom([heat EXCEPT ![cx][cy] = v], k + 1)
FireRise(heat) == FireRiseFrom(heat, 0)

\* FireIgnite without the min(255, ...) cap
FireIgnite_NoCap(heat, ign) ==
    [cx \in Cols |-> [cy \in Rows |->
        IF cy = 0 /\ ign[cx] > 0 THEN heat[cx][0] + ign[cx] ELSE heat[cx][cy]]]

FireIgnite(heat, ign) ==
    [cx \in Cols |-> [cy \in Rows |->
        IF cy = 0 /\ ign[cx] > 0 THEN Min(255, heat[cx][0] + ign[cx]) ELSE heat[cx][cy]]]

FireStep(heat, cool, ign) == FireIgnite(FireRise(FireCool(heat, cool)), ign)

\* --- sparkle (core.py _render_sparkle, effects.py _sparkle). brightness is held
\* as the number of tenths nominally left of the 1.0 an entry is spawned with. The
\* floats drift: in IEEE doubles (CPython) the tenth `-= 0.1` leaves
\* 1.3877787807814457e-16, which passes `> 0`, so the entry stays at nominal 0 and
\* goes with the eleventh; in single precision the tenth leaves -7.45e-08 and the
\* entry goes. above: the result of the tenth subtraction is above 0.
\* a variant that drops no entry
SparkleFade_KeepAll(sparkles, above) ==
    [i \in 1..Len(sparkles) |->
        [sparkles[i] EXCEPT !.brightness = sparkles[i].brightness - 1]]

SparkleFade(sparkles, above) ==
    LET faded == [i \in 1..Len(sparkles) |->
                    [sparkles[i] EXCEPT !.brightness = sparkles[i].brightness - 1]]
    IN  SelectSeq(faded, LAMBDA sp : sp.brightness > 0 \/ (sp.brightness = 0 /\ above))

\* spawn.on: random.random() < 0.3
SparkleStep(sparkles, spawn, above) ==
    IF spawn.on
    THEN Append(SparkleFade(sparkles, above),
                [x |-> spawn.x, y |-> spawn.y, brightness |-> 10, hue |-> spawn.hue])
    ELSE SparkleFade(sparkles, above)

\* --- matrix (core.py _render_matrix, effects.py _matrix); y and speed in tenths
\* respawn: the (y, speed) drawn for a drop that left the screen
MatrixStep(drops, respawn) ==
    [cx \in Cols |->
        LET moved == drops[cx].y + drops[cx].speed
        IN  IF moved > (HEIGHT + 8) * 10 THEN respawn
            ELSE [drops[cx] EXCEPT !.y = moved]]

\* some trail pixel of some drop is on the screen
MatrixDraws(drops) ==
    \E cx \in Cols : \E i \in 0..7 :
        LET ty == TruncTenths(drops[cx].y) - i IN 0 <= ty /\ ty < HEIGHT

\* ------------------------------------------------------------------------
\* Random draws of one render call
\* ------------------------------------------------------------------------
UniformCool(k) == [cx \in Cols |-> [cy \in Rows |-> k]]
UniformIgn(a) == [cx \in Cols |-> a]
NoDraw == [cool |-> UniformCool(0), ign |-> UniformIgn(0),
           spawn |-> [on |-> FALSE, x |-> 0, y |-> 0, hue |-> 0],
           respawn |-> [y |-> 0 - 10, speed |-> 1],
           due |-> FALSE, wide |-> FALSE, above |-> TRUE]

FireDraws ==
    {[NoDraw EXCEPT !.cool = c, !.ign = g] :
        c \in {[cx \in Cols |-> [cy \in Rows |-> (cx + cy) % 4]]},
        g \in {[cx \in Cols |-> IF cx % 2 = 0 THEN 160 ELSE 0]}}
SparkleDraws ==
    {[NoDraw EXCEPT !.spawn = sp] :
        sp \in {[on |-> FALSE, x |-> 0, y |-> 0, hue |-> 0],
                [on |-> TRUE, x |-> 0, y |-> 0, hue |-> 0],
                [on |-> TRUE, x |-> WIDTH - 1, y |-> HEIGHT - 1, hue |-> 360]}}
MatrixDrawSet ==
    {[NoDraw EXCEPT !.respawn = r] :
        r \in {[y |-> 0 - 80, speed |-> 1], [y |-> 0 - 10, speed |-> 4]}}
\* the device scrolls when its 75 ms timer has elapsed, and measures text with
\* the display library's font (wide: the larger of the widths it may report)
TimerDraws == {[NoDraw EXCEPT !.due = d, !.wide = w] : d \in BOOLEAN, w \in BOOLEAN}

\* ------------------------------------------------------------------------
\* State
\* ------------------------------------------------------------------------
VARIABLES
    dev,      \* main.py globals and the Effects object
    sim,      \* simulator.py globals
    core,     \* a core.DisplayState
    devOut,   \* what the last step made the device do to its display and channel
    simOut,   \* the same for the simulator (Idle when the step was not its own)
    coreOut,  \* the same for the core Renderer
    powerSeen, \* the latest power-set command delivered: "none", "on" or "off"
    ticks,    \* render calls so far
    net,      \* the device's MQTT session, its main loop's timers and position
    calc      \* argument and result of the pure function last applied

vars == <<dev, sim, core, devOut, simOut, coreOut, powerSeen, ticks, net, calc>>

JEmptyObj == JValue("obj", <<>>, 0, JNoMembers)
White == <<255, 255, 255>>
Out(branch, view, ops, raised, pub) ==
    [branch |-> branch, view |-> view, ops |-> ops, raised |-> raised, pub |-> pub]
Idle == Out("idle", "none", {}, FALSE, <<>>)

\* display operations that write pixel colours (clear only blanks)
PixelOps == {"set_pixel", "pixel", "text", "fill"}

\* main.py:23-38 and Effects.__init__
DevInit ==
    [current_text |-> S_empty,
     current_brightness |-> [num |-> 1, den |-> 2],
     current_color |-> White,
     current_effect |-> S_none,
     power_on |-> TRUE,
     text_scroll_position |-> 0,
     sensor_status |-> JEmptyObj,
     show_sensors |-> TRUE,
     sensor_scroll_pos |-> WIDTH,
     frame |-> 0,
     heat |-> ZeroHeat,
     drops |-> InitDrops,
     sparkles |-> <<>>,
     alive |-> TRUE]

\* simulator.py:31-47
SimInit ==
    [power |-> TRUE,
     brightness |-> 128,
     color |-> White,
     effect |-> S_none,
     text |-> S_empty,
     sensors |-> JEmptyObj,
     show_sensors |-> TRUE,
     animation_frame |-> 0,
     text_scroll_pos |-> WIDTH * 10,
     sensor_scroll_pos |-> WIDTH * 10,
     heat |-> ZeroHeat,
     alive |-> TRUE]

\* core.DisplayState.__init__
DisplayStateInit ==
    [power |-> TRUE,
     brightness |-> 128,
     color |-> White,
     effect |-> S_none,
     text |-> S_empty,
     sensors |-> JEmptyObj,
     show_sensors |-> TRUE,
     frame |-> 0,
     text_scroll_pos |-> WIDTH * 10,
     sensor_scroll_pos |-> WIDTH * 10,
     heat |-> ZeroHeat,
     sparkles |-> <<>>,
     drops |-> InitDrops]

\* ------------------------------------------------------------------------
\* publish_state
\* ------------------------------------------------------------------------
\* main.py publish_state: int(current_brightness * 255)
MainReport(d) ==
    [state |-> IF d.power_on THEN "ON" ELSE "OFF",
     brightness |-> TruncTenths((d.current_brightness.num * 2550) \div d.current_brightness.den),
     color |-> d.current_color,
     effect |-> d.current_effect,
     text |-> d.current_text]

\* simulator.py publish_state
SimReport(st) ==
    [state |-> IF st.power THEN "ON" ELSE "OFF",
     brightness |-> st.brightness,
     color |-> st.color,
     effect |-> st.effect,
     text |-> st.text]

\* ------------------------------------------------------------------------
\* main.py on_message: the state after the handler
\* ------------------------------------------------------------------------
\* a variant of MainTextSet that leaves the sensor flag as it was
MainTextSet_KeepSensors(d, msg) ==
    [d EXCEPT !.current_text = msg, !.text_scroll_position = WIDTH,
              !.current_effect = S_none]

MainTextSet(d, msg) ==
    [d EXCEPT !.current_text = msg, !.text_scroll_position = WIDTH,
              !.current_effect = S_none, !.show_sensors = FALSE]

MainBrightnessSet(d, msg) ==
    LET r == IntParsed[msg]
    IN  IF r.ok THEN [d EXCEPT !.current_brightness = [num |-> r.val, den |-> 255]] ELSE d

MainColorSet(d, msg) ==
    LET r == ColorParsed[msg]
    IN  IF r.ok THEN [d EXCEPT !.current_color = r.val] ELSE d

\* a variant of MainEffectSet that stores the pseudo-effect name
MainEffectSet_StoreClock(d, msg) ==
    LET e == Lower(msg)
    IN  IF e = S_clock
        THEN [d EXCEPT !.show_sensors = TRUE, !.current_text = S_empty, !.current_effect = e]
        ELSE IF e # S_none
        THEN [d EXCEPT !.current_effect = e, !.current_text = S_empty, !.show_sensors = FALSE]
        ELSE [d EXCEPT !.current_effect = e]

\* a variant of MainEffectSet in which "none" falls back to the sensor view
MainEffectSet_NoneForcesSensors(d, msg) ==
    LET e == Lower(msg)
    IN  IF e = S_clock
        THEN [d EXCEPT !.show_sensors = TRUE, !.current_text = S_empty, !.current_effect = S_none]
        ELSE IF e # S_none
        THEN [d EXCEPT !.current_effect = e, !.current_text = S_empty, !.show_sensors = FALSE]
        ELSE [d EXCEPT !.current_effect = e, !.show_sensors = TRUE]

MainEffectSet(d, msg) ==
    LET e == Lower(msg)
    IN  IF e = S_clock
        THEN [d EXCEPT !.show_sensors = TRUE, !.current_text = S_empty, !.current_effect = S_none]
        ELSE IF e # S_none
        THEN [d EXCEPT !.current_effect = e, !.current_text = S_empty, !.show_sensors = FALSE]
        ELSE [d EXCEPT !.current_effect = e]

MainPowerSet(d, msg) == [d EXCEPT !.power_on = PowerPayloadOn(msg)]

\* a variant of MainSensorsSet that merges the new map into the stored one
MainSensorsSet_Merge(d, msg) ==
    LET r == JsonLoaded[msg]
        old == IF d.sensor_status.t = "obj" THEN d.sensor_status.m ELSE JNoMembers
        merged == [k \in DOMAIN old \cup DOMAIN r.val.m |->
                      IF k \in DOMAIN r.val.m THEN r.val.m[k] ELSE old[k]]
    IN  IF r.ok
        THEN [d EXCEPT !.sensor_status = IF r.val.t = "obj"
                                         THEN JValue("obj", <<>>, 0, merged) ELSE r.val,
                       !.show_sensors = TRUE,
                       !.current_text = S_empty, !.current_effect = S_none,
                       !.sensor_scroll_pos = WIDTH]
        ELSE d

MainSensorsSet(d, msg) ==
    LET r == JsonLoaded[msg]
    IN  IF r.ok
        THEN [d EXCEPT !.sensor_status = r.val, !.show_sensors = TRUE,
                       !.current_text = S_empty, !.current_effect = S_none,
                       !.sensor_scroll_pos = WIDTH]
        ELSE d

MainOnMessage(d, topic, msg) ==
    CASE topic = "text" -> MainTextSet(d, msg)
      [] topic = "brightness" -> MainBrightnessSet(d, msg)
      [] topic = "color" -> MainColorSet(d, msg)
      [] topic = "effect" -> MainEffectSet(d, msg)
      [] topic = "power" -> MainPowerSet(d, msg)
      [] topic = "sensors" -> MainSensorsSet(d, msg)
      [] OTHER -> d

\* on the power topic: `if not power_on: clear_display()` (black pen,
\* graphics.clear(), su.update()); d2 is the state the handler has written
MainOnMessageOps(d2, topic) ==
    IF topic = "power" /\ ~d2.power_on THEN {"clear", "update"} ELSE {}

\* the `except (ValueError, ...): pass` arms: the payload is dropped
OnMessageIgnores(topic, msg) ==
    \/ topic = "brightness" /\ ~IntParsed[msg].ok
    \/ topic = "color" /\ ~ColorParsed[msg].ok
    \/ topic = "sensors" /\ ~JsonLoaded[msg].ok

\* the handler ends with publish_state() on every path
MainOnMessageOut(d2, topic, msg) ==
    Out("on_message", IF OnMessageIgnores(topic, msg) THEN "ignored" ELSE "none",
        MainOnMessageOps(d2, topic), FALSE, <<MainReport(d2)>>)

\* ------------------------------------------------------------------------
\* simulator.py on_message
\* ------------------------------------------------------------------------
SimPowerSet(st, payload) == [st EXCEPT !.power = PowerPayloadOn(payload)]

SimBrightnessSet(st, payload) ==
    LET r == IntParsed[payload]
    IN  IF r.ok THEN [st EXCEPT !.brightness = r.val] ELSE st

SimColorSet(st, payload) ==
    LET r == ColorParsed[payload]
    IN  IF r.ok THEN [st EXCEPT !.color = r.val] ELSE st

\* a variant of SimEffectSet that leaves the sensor flag set when an effect starts
SimEffectSet_KeepSensors(st, payload) ==
    LET e == Lower(payload)
    IN  IF e = S_clock
        THEN [st EXCEPT !.show_sensors = TRUE, !.text = S_empty, !.effect = S_none]
        ELSE IF e # S_none
        THEN [st EXCEPT !.effect = e, !.text = S_empty]
        ELSE [st EXCEPT !.effect = e]

SimEffectSet(st, payload) ==
    LET e == Lower(payload)
    IN  IF e = S_clock
        THEN [st EXCEPT !.show_sensors = TRUE, !.text = S_empty, !.effect = S_none]
        ELSE IF e # S_none
        THEN [st EXCEPT !.effect = e, !.text = S_empty, !.show_sensors = FALSE]
        ELSE [st EXCEPT !.effect = e]

\* a variant of SimTextSet that keeps the scroll cursor where it was
SimTextSet_NoReset(st, payload) ==
    [st EXCEPT !.text = payload, !.effect = S_none, !.show_sensors = FALSE]

SimTextSet(st, payload) ==
    [st EXCEPT !.text = payload, !.effect = S_none, !.show_sensors = FALSE,
               !.text_scroll_pos = WIDTH * 10]

\* a variant of SimSensorsSet that leaves the sensor cursor where it was
SimSensorsSet_NoReset(st, payload) ==
    LET r == JsonLoaded[payload]
    IN  IF r.ok
        THEN [st EXCEPT !.sensors = r.val, !.show_sensors = TRUE, !.text = S_empty,
                        !.effect = S_none]
        ELSE st

SimSensorsSet(st, payload) ==
    LET r == JsonLoaded[payload]
    IN  IF r.ok
        THEN [st EXCEPT !.sensors = r.val, !.show_sensors = TRUE, !.text = S_empty,
                        !.effect = S_none, !.sensor_scroll_pos = WIDTH * 10]
        ELSE st

SimOnMessage(st, topic, payload) ==
    CASE topic = "power" -> SimPowerSet(st, payload)
      [] topic = "brightness" -> SimBrightnessSet(st, payload)
      [] topic = "color" -> SimColorSet(st, payload)
      [] topic = "effect" -> SimEffectSet(st, payload)
      [] topic = "text" -> SimTextSet(st, payload)
      [] topic = "sensors" -> SimSensorsSet(st, payload)
      [] OTHER -> st

\* the simulator's handler calls no display function; s2 is the state it has written
SimOnMessageOps(s2, topic) == {}

SimOnMessageOut(s2, topic, payload) ==
    Out("on_message", IF OnMessageIgnores(topic, payload) THEN "ignored" ELSE "none",
        SimOnMessageOps(s2, topic), FALSE, <<SimReport(s2)>>)

\* ------------------------------------------------------------------------
\* Sensor map helpers
\* ------------------------------------------------------------------------
\* `for name, status in sensors.items(): status.lower()` raises AttributeError
\* unless the value is a dict whose statuses are strings
SensorsWellTyped(v) == v.t = "obj" /\ \A k \in DOMAIN v.m : v.m[k].t = "str"
\* Python truth value of the parsed JSON value
JTruthy(v) ==
    CASE v.t = "obj" -> DOMAIN v.m # {}
      [] v.t = "str" -> v.s # <<>>
      [] v.t = "num" -> v.n # 0
      [] OTHER -> FALSE
\* names (uppercased) whose status.lower() is in ("open", "on", "true", "1")
OpenDoors(v) == {Upper(k) : k \in {kk \in DOMAIN v.m : Lower(v.m[kk].s) \in OpenWords}}

TwoSpaces == <<" ", " ">>
\* total_width += measure_text(name + "  ")
RECURSIVE MarqueeWidth(_)
MarqueeWidth(doors) ==
    IF doors = {} THEN 0
    ELSE LET name == CHOOSE n \in doors : TRUE
         IN  measure_text(name \o TwoSpaces) + MarqueeWidth(doors \ {name})

\* graphics.measure_text(text, 1) of the display library's bitmap8 font, which is
\* not part of the repository: between 1 and 8 pixels per character
Bitmap8Width(text, wide) == IF wide THEN 8 * Len(text) ELSE Len(text)
RECURSIVE Bitmap8MarqueeWidth(_, _)
Bitmap8MarqueeWidth(doors, wide) ==
    IF doors = {} THEN 0
    ELSE LET name == CHOOSE n \in doors : TRUE
         IN  Bitmap8Width(name \o TwoSpaces, wide) + Bitmap8MarqueeWidth(doors \ {name}, wide)

EffectName(e) ==
    CASE e = S_rainbow -> "rainbow"
      [] e = S_fire -> "fire"
      [] e = S_plasma -> "plasma"
      [] e = S_matrix -> "matrix"
      [] e = S_sparkle -> "sparkle"
      [] e = S_gradient -> "gradient"
      [] OTHER -> "none"

Result(st, out) == [st |-> st, out |-> out]

\* ------------------------------------------------------------------------
\* core.py Renderer
\* ------------------------------------------------------------------------
\* a variant of RenderBranch that tests the effect before the sensor flag
RenderBranch_EffectFirst(c) ==
    IF ~c.power THEN "off"
    ELSE IF c.effect \in EFFECTS THEN EffectName(c.effect)
    ELSE IF c.show_sensors THEN "sensors"
    ELSE IF c.text # S_empty THEN "text"
    ELSE "solid"

\* which branch of Renderer.render runs (core.py:160-181)
RenderBranch(c) ==
    IF ~c.power THEN "off"
    ELSE IF c.show_sensors THEN "sensors"
    ELSE IF c.effect \in EFFECTS THEN EffectName(c.effect)
    ELSE IF c.text # S_empty THEN "text"
    ELSE "solid"

\* _render_sensors: the clock always, a red border when a door is open
RenderSensors(c) ==
    IF ~SensorsWellTyped(c.sensors)
    THEN Result(c, Out("sensors", "none", {}, TRUE, <<>>))
    ELSE Result(c, Out("sensors",
                       IF OpenDoors(c.sensors) = {} THEN "clock" ELSE "clock+border",
                       {"clear", "set_pixel"}, FALSE, <<>>))

\* `text_scroll_pos < -text_width` for a cursor held in tenths of a pixel. The
\* cursor is a double that started at 16.0 and went down by 0.4 a tick; where it
\* nominally equals -width the double is a few 1e-15 lower for widths up to 20
\* (16 - 0.4 * 50 = -4.00000000000001) and not lower beyond.
FallsBelow(pos, width) ==
    \/ pos < 0 - 10 * width
    \/ pos = 0 - 10 * width /\ width <= 20

\* a variant of ScrollText that never wraps
ScrollText_NoWrap(pos, text) == pos - 4

\* _render_text: scroll by 0.4, wrap below -measure_text(text)
ScrollText(pos, text) ==
    LET moved == pos - 4
    IN  IF FallsBelow(moved, measure_text(text)) THEN WIDTH * 10 ELSE moved

RenderText(c) ==
    Result([c EXCEPT !.text_scroll_pos = ScrollText(c.text_scroll_pos, c.text)],
           Out("text", "text", {"clear"} \cup (IF HasInk(c.text) THEN {"set_pixel"} ELSE {}),
               FALSE, <<>>))

RenderSolid(c) == Result(c, Out("solid", "solid", {"set_pixel"}, FALSE, <<>>))

RenderFire(c, rnd) ==
    Result([c EXCEPT !.heat = FireStep(c.heat, rnd.cool, rnd.ign)],
           Out("fire", "fire", {"set_pixel"}, FALSE, <<>>))

RenderMatrix(c, rnd) ==
    Result([c EXCEPT !.drops = MatrixStep(c.drops, rnd.respawn)],
           Out("matrix", "matrix",
               {"clear"} \cup (IF MatrixDraws(c.drops) THEN {"set_pixel"} ELSE {}),
               FALSE, <<>>))

\* core.py runs under CPython: doubles
RenderSparkle(c, rnd) ==
    LET sp == SparkleStep(c.sparkles, rnd.spawn, TRUE)
    IN  Result([c EXCEPT !.sparkles = sp],
               Out("sparkle", "sparkle",
                   {"clear"} \cup (IF sp # <<>> THEN {"set_pixel"} ELSE {}), FALSE, <<>>))

\* a variant in which rainbow, plasma and gradient move the text cursor as well
RenderStateless_Scrolls(c, name) ==
    Result([c EXCEPT !.text_scroll_pos = @ - 4], Out(name, name, {"set_pixel"}, FALSE, <<>>))

\* rainbow, plasma, gradient: a function of the frame counter alone
RenderStateless(c, name) == Result(c, Out(name, name, {"set_pixel"}, FALSE, <<>>))

\* Renderer.render
Render(c, rnd) ==
    LET b == RenderBranch(c)
        r == CASE b = "sensors" -> RenderSensors(c)
               [] b = "fire" -> RenderFire(c, rnd)
               [] b = "matrix" -> RenderMatrix(c, rnd)
               [] b = "sparkle" -> RenderSparkle(c, rnd)
               [] b \in {"rainbow", "plasma", "gradient"} -> RenderStateless(c, b)
               [] b = "text" -> RenderText(c)
               [] OTHER -> RenderSolid(c)
    IN  IF b = "off" THEN Result(c, Out("off", "blank", {"clear"}, FALSE, <<>>))
        ELSE IF r.out.raised THEN r
        ELSE Result([r.st EXCEPT !.frame = @ + 1], r.out)

\* ------------------------------------------------------------------------
\* simulator.py render_display
\* ------------------------------------------------------------------------
render_display_branch(st) ==
    IF ~st.power THEN "off"
    ELSE IF st.show_sensors THEN "sensors"
    ELSE IF st.effect \in EFFECTS THEN EffectName(st.effect)
    ELSE IF st.text # S_empty THEN "text"
    ELSE "solid"

\* sensor_scroll_pos -= 0.5, wrap below -total_width
ScrollSensors(pos, doors) ==
    LET moved == pos - 5
    IN  IF moved < 0 - 10 * MarqueeWidth(doors) THEN WIDTH * 10 ELSE moved

\* render_sensors: the clock when no door is open, else the red marquee;
\* an exception ends the animation thread
render_sensors(st) ==
    IF ~SensorsWellTyped(st.sensors)
    THEN Result([st EXCEPT !.alive = FALSE], Out("sensors", "none", {}, TRUE, <<>>))
    ELSE LET doors == OpenDoors(st.sensors)
         IN  IF doors = {}
             THEN Result(st, Out("sensors", "clock", {"clear", "set_pixel"}, FALSE, <<>>))
             ELSE Result([st EXCEPT !.sensor_scroll_pos = ScrollSensors(st.sensor_scroll_pos, doors)],
                         Out("sensors", "marquee",
                             {"clear"} \cup (IF \E n \in doors : HasInk(n) THEN {"set_pixel"} ELSE {}),
                             FALSE, <<>>))

render_scrolling_text(st) ==
    Result([st EXCEPT !.text_scroll_pos = ScrollText(st.text_scroll_pos, st.text)],
           Out("text", "text", {"clear"} \cup (IF HasInk(st.text) THEN {"set_pixel"} ELSE {}),
               FALSE, <<>>))

render_fire(st, rnd) ==
    Result([st EXCEPT !.heat = FireStep(st.heat, rnd.cool, rnd.ign)],
           Out("fire", "fire", {"set_pixel"}, FALSE, <<>>))

\* render_rainbow, render_plasma, render_gradient: draw, animation_frame += 1;
\* render_matrix clears first; render_sparkle clears, draws 8 pixels, keeps no state
render_framed(st, name) ==
    Result([st EXCEPT !.animation_frame = @ + 1],
           Out(name, name, (IF name = "matrix" THEN {"clear"} ELSE {}) \cup {"set_pixel"},
               FALSE, <<>>))
render_sparkle(st) == Result(st, Out("sparkle", "sparkle", {"clear", "set_pixel"}, FALSE, <<>>))

render_display(st, rnd) ==
    LET b == render_display_branch(st)
    IN  CASE b = "off" -> Result(st, Out("off", "blank", {"clear"}, FALSE, <<>>))
          [] b = "sensors" -> render_sensors(st)
          [] b = "fire" -> render_fire(st, rnd)
          [] b = "sparkle" -> render_sparkle(st)
          [] b \in {"rainbow", "plasma", "matrix", "gradient"} -> render_framed(st, b)
          [] b = "text" -> render_scrolling_text(st)
          [] OTHER -> Result(st, Out("solid", "solid", {"set_pixel"}, FALSE, <<>>))

\* ------------------------------------------------------------------------
\* main.py update_display, effects.py Effects.run
\* ------------------------------------------------------------------------
\* a variant of update_display_branch without the power test
update_display_branch_NoPower(d) ==
    IF d.show_sensors THEN "sensors"
    ELSE IF d.current_effect # S_none /\ d.current_effect \in EFFECTS
         THEN EffectName(d.current_effect)
    ELSE IF d.current_text # S_empty THEN "text"
    ELSE "solid"

\* a variant of update_display_branch that hands any effect name but "none" to effects.run
update_display_branch_AnyEffect(d) ==
    IF ~d.power_on THEN "off"
    ELSE IF d.show_sensors THEN "sensors"
    ELSE IF d.current_effect # S_none THEN EffectName(d.current_effect)
    ELSE IF d.current_text # S_empty THEN "text"
    ELSE "solid"

update_display_branch(d) ==
    IF ~d.power_on THEN "off"
    ELSE IF d.show_sensors THEN "sensors"
    ELSE IF d.current_effect # S_none /\ d.current_effect \in EFFECTS
         THEN EffectName(d.current_effect)
    ELSE IF d.current_text # S_empty THEN "text"
    ELSE "solid"

\* the device scrolls one pixel when its timer is due
DeviceScroll(pos, width, due) ==
    IF ~due THEN pos
    ELSE IF pos - 1 < 0 - width THEN WIDTH ELSE pos - 1

\* draw_sensors, then su.update(graphics); an exception ends the main loop
draw_sensors(d, rnd) ==
    IF ~JTruthy(d.sensor_status)
    THEN Result(d, Out("sensors", "stale", {"update"}, FALSE, <<>>))
    ELSE IF ~SensorsWellTyped(d.sensor_status)
    THEN Result([d EXCEPT !.alive = FALSE], Out("sensors", "none", {}, TRUE, <<>>))
    ELSE LET doors == OpenDoors(d.sensor_status)
         IN  IF doors = {}
             THEN Result(d, Out("sensors", "clock", {"clear", "text", "update"}, FALSE, <<>>))
             ELSE Result([d EXCEPT !.sensor_scroll_pos =
                              DeviceScroll(d.sensor_scroll_pos,
                                           Bitmap8MarqueeWidth(doors, rnd.wide), rnd.due)],
                         Out("sensors", "marquee", {"clear", "text", "update"}, FALSE, <<>>))

\* draw_text, then su.update(graphics)
draw_text(d, rnd) ==
    Result([d EXCEPT !.text_scroll_position =
                DeviceScroll(d.text_scroll_position,
                             Bitmap8Width(d.current_text, rnd.wide), rnd.due)],
           Out("text", "text", {"clear", "text", "update"}, FALSE, <<>>))

\* Effects.run(effect_name): the effect, su.update, frame += 1
EffectsRun(d, name, rnd) ==
    LET st == CASE name = "fire" -> [d EXCEPT !.heat = FireStep(d.heat, rnd.cool, rnd.ign)]
                [] name = "sparkle" -> [d EXCEPT !.sparkles = SparkleStep(d.sparkles, rnd.spawn, rnd.above)]
                [] name = "matrix" -> [d EXCEPT !.drops = MatrixStep(d.drops, rnd.respawn)]
                [] OTHER -> d
        ops == CASE name = "sparkle" ->
                      {"clear"} \cup (IF st.sparkles # <<>> THEN {"pixel"} ELSE {})
                 [] name = "matrix" ->
                      {"clear"} \cup (IF MatrixDraws(d.drops) THEN {"pixel"} ELSE {})
                 [] OTHER -> {"pixel"}
    IN  Result([st EXCEPT !.frame = @ + 1], Out(name, name, ops \cup {"update"}, FALSE, <<>>))

update_display(d, rnd) ==
    LET b == update_display_branch(d)
    IN  CASE b = "off" -> Result(d, Out("off", "stale", {}, FALSE, <<>>))
          [] b = "sensors" -> draw_sensors(d, rnd)
          [] b = "text" -> draw_text(d, rnd)
          [] b = "solid" -> Result(d, Out("solid", "solid", {"fill", "update"}, FALSE, <<>>))
          [] OTHER -> EffectsRun(d, b, rnd)

\* the draws a render call consumes in the given branch
DrawsFor(branch) ==
    CASE branch = "fire" -> FireDraws
      [] branch = "sparkle" -> SparkleDraws
      [] branch = "matrix" -> MatrixDrawSet
      [] OTHER -> {NoDraw}
\* the device's float width (double or single precision) is that of its firmware
DeviceDrawsFor(branch, marquee) ==
    IF branch = "text" \/ (branch = "sensors" /\ marquee) THEN TimerDraws
    ELSE IF branch = "sparkle"
    THEN {[r EXCEPT !.above = a] : r \in SparkleDraws, a \in BOOLEAN}
    ELSE DrawsFor(branch)

\* ------------------------------------------------------------------------
\* The device's MQTT session and main-loop timers
\* ------------------------------------------------------------------------
\* `if time.ticks_diff(current_time, last_mqtt_check) > 100`, in ms
PollMs == 100
\* `time.sleep(0.01)`, in ms
SleepMs == 10
\* elapsed time between reconnect attempts is measured up to this many ms
GapCap == 1000
\* transport failures and failed reconnects the environment may cause
MaxAttempts == 3

\* config.MQTT_TOPIC_DOOR_STATE, "home/door/+/state"
DoorTopic == "door"
\* the subscribe calls, in the order main.py makes them
SubscribeOrder == <<"text", "brightness", "color", "effect", "power", "sensors">>

\* after main.py's startup: connected, the command topics subscribed, "online"
\* published (retained), last_mqtt_check = now.
\*   pc          where the program is: "boot", "poll", "display" or "dead"
\*   sock        "ok", or "broken" when the next check_msg() raises OSError
\*   subs        topics subscribed on the broker session
\*   online      the retained "online" was published on this session
\*   since_check ms since last_mqtt_check
\*   did         what the poll block of this iteration did
\*   gap         ms since the previous (re)connect attempt, up to GapCap
\*   failures    reconnect attempts failed in a row
\*   attempts    failures caused so far
\*   door        the latest per-door state publication, <<name, status>>
NetInit ==
    [pc |-> "poll", sock |-> "ok", subs |-> Topics, online |-> TRUE, since_check |-> 0,
     did |-> "connected", gap |-> 0, failures |-> 0, attempts |-> 0,
     door |-> <<>>]

\* no pure function applied yet
NoCalc == [fn |-> "none", arg |-> <<>>, res |-> <<>>]

\* ------------------------------------------------------------------------
\* Initial states
\* ------------------------------------------------------------------------
\* after the startup code of main.py (startup fill, connect, publish_state) and of
\* simulator.py (on_connect publishes the state)
Init ==
    /\ dev = DevInit
    /\ sim = SimInit
    /\ core = DisplayStateInit
    /\ devOut = Out("startup", "startup", {"fill", "update"}, FALSE, <<MainReport(DevInit)>>)
    /\ simOut = Out("startup", "none", {}, FALSE, <<SimReport(SimInit)>>)
    /\ coreOut = Idle
    /\ powerSeen = "none"
    /\ ticks = 0
    /\ net = NetInit
    /\ calc = NoCalc

\* Display States handed to the renderers directly, whatever command sequence
\* would or would not produce them
AnyEffects == EFFECTS \cup {S_none, S_disco}
AnyTexts == {S_empty, <<"H","i">>}
AnySensors == {JEmptyObj, JsonLoads(CHOOSE p \in SensorPayloads : Len(p) > 12).val}
WarmHeat == [cx \in Cols |-> [cy \in Rows |-> 90 + 10 * cx]]
OneSparkle == <<[x |-> 1, y |-> 2, brightness |-> 5, hue |-> 40]>>
AnyMemory == {[heat |-> ZeroHeat, sparkles |-> <<>>], [heat |-> WarmHeat, sparkles |-> OneSparkle]}

InitAny ==
    \E p \in BOOLEAN, sh \in BOOLEAN, e \in AnyEffects, t \in AnyTexts,
       sn \in AnySensors, mem \in AnyMemory :
        /\ dev = [DevInit EXCEPT !.power_on = p, !.show_sensors = sh, !.current_effect = e,
                                 !.current_text = t, !.sensor_status = sn,
                                 !.heat = mem.heat, !.sparkles = mem.sparkles]
        /\ sim = [SimInit EXCEPT !.power = p, !.show_sensors = sh, !.effect = e,
                                 !.text = t, !.sensors = sn, !.heat = mem.heat]
        /\ core = [DisplayStateInit EXCEPT !.power = p, !.show_sensors = sh, !.effect = e,
                                           !.text = t, !.sensors = sn,
                                           !.heat = mem.heat, !.sparkles = mem.sparkles]
        /\ devOut = Idle
        /\ simOut = Idle
        /\ coreOut = Idle
        /\ powerSeen = "none"
        /\ ticks = 0
        /\ net = NetInit
        /\ calc = NoCalc

\* a power payload that asks for off: anything but on / true / 1 in any letter case
IsOffPayload(msg) ==
    ~\E w \in {<<"o","n">>, <<"t","r","u","e">>, <<"1">>} :
        Len(w) = Len(msg) /\ \A i \in 1..Len(w) : msg[i] \in {w[i], UpperChar(w[i])}

\* ------------------------------------------------------------------------
\* Actions
\* ------------------------------------------------------------------------
\* a command published on a topic reaches both subscribers; the device handles it
\* in its main loop (check_msg), the simulator in its MQTT thread
Deliver(topic, msg) ==
    /\ powerSeen' = IF topic # "power" THEN powerSeen
                    ELSE IF IsOffPayload(msg) THEN "off" ELSE "on"
    /\ LET d2 == MainOnMessage(dev, topic, msg)
           s2 == SimOnMessage(sim, topic, msg)
       IN  /\ dev' = IF dev.alive THEN d2 ELSE dev
           /\ devOut' = IF dev.alive THEN MainOnMessageOut(d2, topic, msg) ELSE Idle
           /\ sim' = s2
           /\ simOut' = SimOnMessageOut(s2, topic, msg)
    /\ coreOut' = Idle
    /\ UNCHANGED <<core, ticks, net, calc>>

\* one update_display() call of the device's main loop
DevTick ==
    /\ dev.alive
    /\ ticks < MaxTicks
    /\ \E rnd \in DeviceDrawsFor(update_display_branch(dev),
                                JTruthy(dev.sensor_status) /\ SensorsWellTyped(dev.sensor_status)
                                /\ OpenDoors(dev.sensor_status) # {}) :
          LET r == update_display(dev, rnd)
          IN  /\ dev' = r.st
              /\ devOut' = r.out
    /\ ticks' = ticks + 1
    /\ simOut' = Idle
    /\ coreOut' = Idle
    /\ UNCHANGED <<sim, core, powerSeen, net, calc>>

\* one render_display() call of the simulator's animation thread
SimTick ==
    /\ sim.alive
    /\ ticks < MaxTicks
    /\ \E rnd \in DrawsFor(render_display_branch(sim)) :
          LET r == render_display(sim, rnd)
          IN  /\ sim' = r.st
              /\ simOut' = r.out
    /\ ticks' = ticks + 1
    /\ devOut' = Idle
    /\ coreOut' = Idle
    /\ UNCHANGED <<dev, core, powerSeen, net, calc>>

\* one Renderer.render() call on the core DisplayState
CoreTick ==
    /\ ticks < MaxTicks
    /\ \E rnd \in DrawsFor(RenderBranch(core)) :
          LET r == Render(core, rnd)
          IN  /\ core' = r.st
              /\ coreOut' = r.out
    /\ ticks' = ticks + 1
    /\ devOut' = Idle
    /\ simOut' = Idle
    /\ UNCHANGED <<dev, sim, powerSeen, net, calc>>

Command == \E topic \in Topics : \E msg \in PayloadsOf(topic) : Deliver(topic, msg)

Next == Command \/ DevTick \/ SimTick
Spec == Init /\ [][Next]_vars

\* the renderers applied to arbitrary Display States
NextRender == DevTick \/ SimTick \/ CoreTick
SpecRender == InitAny /\ [][NextRender]_vars

\* ------------------------------------------------------------------------
\* Properties
\* ------------------------------------------------------------------------
\* the Display State the simulator holds, as a core.DisplayState
DisplayStateOf(st) ==
    [DisplayStateInit EXCEPT !.power = st.power, !.brightness = st.brightness,
                             !.color = st.color, !.effect = st.effect, !.text = st.text,
                             !.sensors = st.sensors, !.show_sensors = st.show_sensors,
                             !.text_scroll_pos = st.text_scroll_pos,
                             !.sensor_scroll_pos = st.sensor_scroll_pos, !.heat = st.heat]

\* C1 - mode precedence: a render call on a Display State with power on and
\* show_sensors set runs the sensor/clock view whatever effect and text are; with
\* effect "fire" the fire algorithm does not run, and heat, sparkles and drops are
\* the same after the call as before it (core Renderer, simulator and device).
C1_ModePrecedence ==
    [][ /\ (CoreTick /\ core.power /\ core.show_sensors) =>
              /\ coreOut'.branch = "sensors"
              /\ core'.heat = core.heat
              /\ core'.sparkles = core.sparkles
              /\ core'.drops = core.drops
        /\ (SimTick /\ sim.power /\ sim.show_sensors) =>
              /\ simOut'.branch = "sensors"
              /\ sim'.heat = sim.heat
        /\ (DevTick /\ dev.power_on /\ dev.show_sensors) =>
              /\ devOut'.branch = "sensors"
              /\ dev'.heat = dev.heat
              /\ dev'.sparkles = dev.sparkles
              /\ dev'.drops = dev.drops
      ]_vars

\* a core render has just run the sensor view on a state whose effect is fire and
\* whose heat grid is warm
C1_Witness ==
    /\ coreOut.branch = "sensors"
    /\ core.power /\ core.show_sensors
    /\ core.effect = S_fire
    /\ core.heat = WarmHeat /\ core.sparkles = OneSparkle

\* C2 - while the latest power-set command processed carried an off payload, no
\* step writes a pixel (set_pixel, pixel, text or fill), and a render or
\* display-update call issues nothing but clear, whatever mode was active before.
C2_NoPixelsWhileOff ==
    powerSeen = "off" =>
        /\ devOut.ops \cap PixelOps = {}
        /\ simOut.ops \cap PixelOps = {}
        /\ devOut.branch \notin {"on_message", "idle"} => devOut.ops \subseteq {"clear"}
        /\ simOut.branch \notin {"on_message", "idle"} => simOut.ops \subseteq {"clear"}

\* the device's update_display has just run with power off while fire is the
\* stored effect
C2_Witness ==
    /\ powerSeen = "off"
    /\ devOut.branch = "off"
    /\ dev.current_effect = S_fire /\ ~dev.show_sensors

\* C3 - power-set stores power = (lowercased payload is on, true or 1), changes no
\* other field, and when the result is false the handler itself clears the
\* display, on the device and on the simulator.
C3_PowerSet ==
    [][\A msg \in PowerPayloads :
          Deliver("power", msg) =>
              LET on == Lower(msg) \in {<<"o","n">>, <<"t","r","u","e">>, <<"1">>}
              IN  /\ dev.alive =>
                        /\ dev' = [dev EXCEPT !.power_on = on]
                        /\ ~on => "clear" \in devOut'.ops
                  /\ sim' = [sim EXCEPT !.power = on]
                  /\ ~on => "clear" \in simOut'.ops
      ]_vars

\* the simulator's handler has just stored power off while a fire frame drawn
\* earlier is still in its LED buffer
C3_Witness ==
    /\ simOut.branch = "on_message"
    /\ powerSeen = "off" /\ ~sim.power
    /\ sim.effect = S_fire /\ sim.heat # ZeroHeat
    /\ "clear" \notin simOut.ops

\* C4 - in every state reachable from startup by commands (valid or malformed) and
\* render ticks, at most one of show_sensors, effect # "none" and text # "" holds.
C4_OneModeAtATime ==
    /\ ~(dev.show_sensors /\ dev.current_effect # S_none)
    /\ ~(dev.show_sensors /\ dev.current_text # S_empty)
    /\ ~(dev.current_effect # S_none /\ dev.current_text # S_empty)
    /\ ~(sim.show_sensors /\ sim.effect # S_none)
    /\ ~(sim.show_sensors /\ sim.text # S_empty)
    /\ ~(sim.effect # S_none /\ sim.text # S_empty)
    /\ ~(core.show_sensors /\ core.effect # S_none)
    /\ ~(core.show_sensors /\ core.text # S_empty)
    /\ ~(core.effect # S_none /\ core.text # S_empty)

\* text is the one active condition after an effect has been rendered and replaced
C4_Witness ==
    /\ devOut.branch = "on_message"
    /\ dev.frame > 0
    /\ dev.current_text # S_empty /\ sim.text # S_empty
    /\ dev.current_effect = S_none /\ ~dev.show_sensors

\* C5 - text-set with payload p yields text = p, the text scroll cursor at the
\* matrix width (16), effect "none" and show_sensors false, and changes nothing
\* else (power, brightness, color, sensors).
C5_TextSet ==
    [][\A p \in TextPayloads :
          Deliver("text", p) =>
              /\ dev.alive =>
                    dev' = [dev EXCEPT !.current_text = p, !.text_scroll_position = 16,
                                       !.current_effect = S_none, !.show_sensors = FALSE]
              /\ sim' = [sim EXCEPT !.text = p, !.text_scroll_pos = 160,
                                    !.effect = S_none, !.show_sensors = FALSE]
      ]_vars

\* a text has been stored after a fire frame was drawn, the cursors at the right edge
C5_Witness ==
    /\ devOut.branch = "on_message" /\ simOut.branch = "on_message"
    /\ dev.current_text = <<"H","i">> /\ sim.text = <<"H","i">>
    /\ dev.text_scroll_position = 16 /\ sim.text_scroll_pos = 160
    /\ dev.heat # ZeroHeat
    /\ dev.current_effect = S_none /\ ~dev.show_sensors

\* C6 - effect-set whose lowercased payload is "clock" yields show_sensors true,
\* text "" and effect "none"; the stored effect and the published effect are never
\* the string "clock".
C6_ClockPseudoEffect ==
    [][ /\ \A msg \in EffectPayloads :
              (Deliver("effect", msg) /\ Lower(msg) = S_clock) =>
                  /\ dev.alive =>
                        /\ dev'.show_sensors
                        /\ dev'.current_text = S_empty
                        /\ dev'.current_effect = S_none
                  /\ sim'.show_sensors
                  /\ sim'.text = S_empty
                  /\ sim'.effect = S_none
        /\ dev'.current_effect # S_clock
        /\ sim'.effect # S_clock
        /\ \A i \in DOMAIN devOut'.pub : devOut'.pub[i].effect # S_clock
        /\ \A i \in DOMAIN simOut'.pub : simOut'.pub[i].effect # S_clock
      ]_vars

\* the sensor view is back on after a text-set, with no sensor report ever stored:
\* only effect-set "clock" does that
C6_Witness ==
    /\ devOut.branch = "on_message" /\ devOut.view = "none"
    /\ dev.show_sensors /\ sim.show_sensors
    /\ dev.text_scroll_position = WIDTH
    /\ dev.sensor_status = JEmptyObj
    /\ dev.current_effect = S_none /\ dev.current_text = S_empty

\* C7 - effect-set whose lowercased payload e is neither "clock" nor "none" yields
\* effect = e, text "" and show_sensors false; a powered render of a state whose
\* effect is not "none" then runs neither the sensor view nor the text view, and
\* runs the effect e when e names one.
C7_EffectSet ==
    [][ /\ \A msg \in EffectPayloads :
              (Deliver("effect", msg) /\ Lower(msg) \notin {S_clock, S_none}) =>
                  /\ dev.alive =>
                        /\ dev'.current_effect = Lower(msg)
                        /\ dev'.current_text = S_empty
                        /\ ~dev'.show_sensors
                  /\ sim'.effect = Lower(msg)
                  /\ sim'.text = S_empty
                  /\ ~sim'.show_sensors
        /\ (DevTick /\ dev.power_on /\ dev.current_effect # S_none) =>
              /\ devOut'.branch \notin {"sensors", "text"}
              /\ dev.current_effect \in EFFECTS => devOut'.branch = EffectName(dev.current_effect)
        /\ (SimTick /\ sim.power /\ sim.effect # S_none) =>
              /\ simOut'.branch \notin {"sensors", "text"}
              /\ sim.effect \in EFFECTS => simOut'.branch = EffectName(sim.effect)
      ]_vars

\* the simulator has just drawn a fire frame for the stored effect "fire"
C7_Witness ==
    /\ simOut.branch = "fire"
    /\ sim.effect = S_fire /\ sim.text = S_empty /\ ~sim.show_sensors
    /\ dev.current_effect = S_fire

\* C8 - effect-set with lowercased payload "none" sets effect to "none" and changes
\* no other field (show_sensors, text, cursors, sensors, ...); if the effect was
\* not "none" before, the next powered render draws the solid color fill.
C8_EffectNone ==
    [][\A msg \in EffectPayloads :
          (Deliver("effect", msg) /\ Lower(msg) = S_none) =>
              /\ dev.alive =>
                    /\ dev' = [dev EXCEPT !.current_effect = S_none]
                    /\ (dev.current_effect # S_none /\ dev.power_on) =>
                          update_display(dev', NoDraw).out.branch = "solid"
              /\ sim' = [sim EXCEPT !.effect = S_none]
              /\ (sim.effect # S_none /\ sim.power) =>
                    /\ render_display(sim', NoDraw).out.branch = "solid"
                    /\ Render(DisplayStateOf(sim'), NoDraw).out.branch = "solid"
      ]_vars

\* the device has just drawn the solid fill with no text-set ever processed and the
\* sensor view off: an effect was started and then stopped with "none"
C8_Witness ==
    /\ devOut.branch = "solid"
    /\ dev.current_effect = S_none /\ sim.effect = S_none
    /\ ~dev.show_sensors /\ dev.current_text = S_empty
    /\ dev.text_scroll_position = 0

\* C9 - sensors-set with a payload that parses as a name -> status map m yields
\* sensors = m (no key of the previous map survives), show_sensors true, text "",
\* effect "none" and the sensor scroll cursor at 16.
C9_SensorsSet ==
    [][\A msg \in SensorPayloads :
          (Deliver("sensors", msg) /\ JsonLoaded[msg].ok /\ SensorsWellTyped(JsonLoaded[msg].val)) =>
              LET m == JsonLoaded[msg].val
              IN  /\ dev.alive =>
                        dev' = [dev EXCEPT !.sensor_status = m, !.show_sensors = TRUE,
                                           !.current_text = S_empty,
                                           !.current_effect = S_none,
                                           !.sensor_scroll_pos = 16]
                  /\ sim' = [sim EXCEPT !.sensors = m, !.show_sensors = TRUE,
                                        !.text = S_empty, !.effect = S_none,
                                        !.sensor_scroll_pos = 160]
      ]_vars

\* the one-door map is stored, sensor view on, after the animation thread had
\* scrolled text: the report arrived in text mode
C9_Witness ==
    /\ devOut.branch = "on_message" /\ devOut.view = "none"
    /\ DOMAIN dev.sensor_status.m = {<<"g">>} /\ DOMAIN sim.sensors.m = {<<"g">>}
    /\ dev.show_sensors /\ sim.show_sensors
    /\ dev.sensor_scroll_pos = 16 /\ sim.sensor_scroll_pos = 160
    /\ sim.text_scroll_pos < 160

\* C10 - a malformed payload leaves the whole state unchanged: brightness-set with a
\* non-integer payload, color-set with a non-integer component or with other than
\* 3 components, sensors-set with invalid JSON.
C10_MalformedIgnored ==
    [][\A topic \in {"brightness", "color", "sensors"} :
          \A msg \in { <<"a","b","c">>, <<"1",".","5">>,
                       <<"1","0",",","2","0">>, <<"1",",","2",",","3",",","4">>,
                       <<"1","0",",","x",",","3","0">>,
                       <<"{",Quote,"f",Quote,":",Quote,"o","p","e","n",Quote>> } \cap PayloadsOf(topic) :
              Deliver(topic, msg) => (dev' = dev /\ sim' = sim)
      ]_vars

\* a payload has just been dropped in a state where color, brightness and text
\* differ from their startup values
C10_Witness ==
    /\ devOut.branch = "on_message" /\ devOut.view = "ignored"
    /\ simOut.view = "ignored"
    /\ dev.current_color # White /\ sim.color # White
    /\ sim.brightness # 128
    /\ dev.current_text # S_empty

\* C11 - a state report is published after a command exactly when the command's
\* transition was applied: one report after every applied command, none after a
\* command whose payload was dropped (malformed brightness, color or sensors).
C11_PublishOnSuccess ==
    [][\A topic \in Topics : \A msg \in PayloadsOf(topic) :
          Deliver(topic, msg) =>
              LET dropped == msg \in { <<"a","b","c">>, <<"1",".","5">>,
                                       <<"1","0",",","2","0">>, <<"1",",","2",",","3",",","4">>,
                                       <<"1","0",",","x",",","3","0">>,
                                       <<"{",Quote,"f",Quote,":",Quote,"o","p","e","n",Quote>> }
                  expected == IF dropped THEN 0 ELSE 1
              IN  /\ dev.alive => Len(devOut'.pub) = expected
                  /\ Len(simOut'.pub) = expected
      ]_vars

\* both handlers have just dropped a payload and published a report all the same
C11_Witness ==
    /\ devOut.branch = "on_message" /\ devOut.view = "ignored"
    /\ simOut.branch = "on_message" /\ simOut.view = "ignored"
    /\ Len(devOut.pub) = 1 /\ Len(simOut.pub) = 1

\* ------------------------------------------------------------------------
\* main.py from power-up: startup code, then the main loop
\* ------------------------------------------------------------------------
DoorNames == {<<"f">>}
DoorStatuses == {<<"o","p","e","n">>}

\* power-up: the startup fill is on the display, nothing is connected yet
NetBoot == [NetInit EXCEPT !.pc = "boot", !.subs = {}, !.online = FALSE, !.did = "none"]

InitLoop ==
    /\ dev = DevInit
    /\ sim = SimInit
    /\ core = DisplayStateInit
    /\ devOut = Out("startup", "startup", {"fill", "update"}, FALSE, <<>>)
    /\ simOut = Idle
    /\ coreOut = Idle
    /\ powerSeen = "none"
    /\ ticks = 0
    /\ net = NetBoot
    /\ calc = NoCalc

\* connect_wifi(), sync_time(), mqtt_client.connect(), the six subscribes, the
\* availability and state publications: none of them is inside a try, so
\* RuntimeError("WiFi connection failed") or an OSError of the MQTT client ends the
\* program before the main loop
Boot ==
    /\ net.pc = "boot"
    /\ \E outcome \in {"connected", "wifi_failed", "mqtt_failed"} :
          /\ net' = IF outcome = "connected" THEN NetInit
                    ELSE [net EXCEPT !.pc = "dead", !.did = outcome]
          /\ devOut' = IF outcome = "connected"
                       THEN Out("startup", "none", {}, FALSE, <<MainReport(dev)>>)
                       ELSE Out("startup", "none", {}, TRUE, <<>>)
    /\ UNCHANGED <<dev, sim, core, simOut, coreOut, powerSeen, ticks, calc>>

\* the reconnect block after check_msg() raised OSError: connect(), six subscribes
\* and the availability publication inside `try: ... except: pass`. k = 0: connect()
\* raises; k in 1..6: the k-th subscribe raises; k = 7: the publication raises;
\* k = 8: nothing raises. After a failure past connect() the new socket is broken
\* (a transport error) or healthy (the broker refused the request).
Reconnect(n, k, sock) ==
    LET nsub == Len(SubscribeOrder)
        ok == k = nsub + 2
    IN  [n EXCEPT !.sock = IF ok THEN "ok" ELSE IF k = 0 THEN "broken" ELSE sock,
                  !.subs = {SubscribeOrder[i] : i \in 1..Min(k - 1, nsub)},
                  !.online = ok,
                  !.did = IF ok THEN "reconnected" ELSE "reconnect_failed",
                  !.gap = 0,
                  !.failures = IF ok THEN 0 ELSE n.failures + 1,
                  !.attempts = IF ok THEN n.attempts ELSE n.attempts + 1]

\* the `if ticks_diff(current_time, last_mqtt_check) > 100:` block of one iteration
PollBlock(n, k, sock) ==
    IF n.since_check <= PollMs THEN [n EXCEPT !.did = "skipped"]
    ELSE IF n.sock = "ok" THEN [n EXCEPT !.did = "polled", !.since_check = 0]
    ELSE [Reconnect(n, k, sock) EXCEPT !.since_check = 0]

\* the outcomes the environment may give the reconnect block: <<k, sock>>
ReconnectOutcomes(n) ==
    LET nsub == Len(SubscribeOrder)
    IN  IF n.since_check <= PollMs \/ n.sock = "ok" THEN {<<nsub + 2, "ok">>}
        ELSE {<<nsub + 2, "ok">>} \cup
             (IF n.attempts >= MaxAttempts THEN {}
              ELSE {<<0, "broken">>} \cup ((1..(nsub + 1)) \X {"ok", "broken"}))

LoopPoll ==
    /\ net.pc = "poll"
    /\ \E o \in ReconnectOutcomes(net) :
          net' = [PollBlock(net, o[1], o[2]) EXCEPT !.pc = "display"]
    /\ devOut' = Idle
    /\ UNCHANGED <<dev, sim, core, simOut, coreOut, powerSeen, ticks, calc>>

\* check_buttons(), update_display(), time.sleep(0.01); an exception of
\* update_display() is not caught and ends the program
LoopDisplay ==
    /\ net.pc = "display"
    /\ \E rnd \in DeviceDrawsFor(update_display_branch(dev),
                                JTruthy(dev.sensor_status) /\ SensorsWellTyped(dev.sensor_status)
                                /\ OpenDoors(dev.sensor_status) # {}) :
          LET r == update_display(dev, rnd)
          IN  /\ dev' = r.st
              /\ devOut' = r.out
              /\ net' = [net EXCEPT !.pc = IF r.st.alive THEN "poll" ELSE "dead",
                                    !.since_check = Min(net.since_check + SleepMs, PollMs + SleepMs),
                                    !.gap = Min(net.gap + SleepMs, GapCap)]
    /\ UNCHANGED <<sim, core, simOut, coreOut, powerSeen, ticks, calc>>

\* the transport under the MQTT session fails: check_msg() raises from now on
SockBreak ==
    /\ net.pc \in {"poll", "display"}
    /\ net.sock = "ok"
    /\ net.attempts < MaxAttempts
    /\ net' = [net EXCEPT !.sock = "broken"]
    /\ UNCHANGED <<dev, sim, core, devOut, simOut, coreOut, powerSeen, ticks, calc>>

\* a door sensor publishes status s on the per-door state topic of door n; the
\* broker forwards it to the device when the device's session subscribes to that
\* topic, and check_msg() hands it to on_message
DoorPublish(n, s) ==
    /\ net.pc \in {"poll", "display"}
    /\ LET delivered == DoorTopic \in net.subs /\ net.sock = "ok"
           d2 == MainOnMessage(dev, DoorTopic, s)
       IN  /\ dev' = IF delivered THEN d2 ELSE dev
           /\ devOut' = IF delivered THEN MainOnMessageOut(d2, DoorTopic, s) ELSE Idle
    /\ net' = [net EXCEPT !.door = <<n, s>>]
    /\ UNCHANGED <<sim, core, simOut, coreOut, powerSeen, ticks, calc>>

DoorState == \E n \in DoorNames, s \in DoorStatuses : DoorPublish(n, s)

NextLoop == Boot \/ LoopPoll \/ LoopDisplay \/ SockBreak \/ DoorState
SpecLoop == InitLoop /\ [][NextLoop]_vars

\* C12 - a message on the per-door state topic for door n with status s sets only
\* sensors[n] to s, turns sensor mode on and clears text and effect; and the device's
\* session subscribes to that topic after the initial connect and every reconnect.
C12_DoorState ==
    [][ /\ \A n \in DoorNames : \A s \in DoorStatuses :
              DoorPublish(n, s) /\ net.sock = "ok" =>
                  LET old == dev.sensor_status.m
                      new == dev'.sensor_status.m
                  IN  /\ n \in DOMAIN new /\ new[n].t = "str" /\ new[n].s = s
                      /\ \A k \in (DOMAIN old \cup DOMAIN new) \ {n} :
                            k \in DOMAIN old /\ k \in DOMAIN new /\ old[k] = new[k]
                      /\ dev'.show_sensors
                      /\ dev'.current_text = S_empty
                      /\ dev'.current_effect = S_none
        /\ net'.did \in {"connected", "reconnected"} => DoorTopic \in net'.subs
      ]_vars

\* a door state was published while the device's session was up
C12_Witness ==
    /\ net.door # <<>>
    /\ net.sock = "ok" /\ net.online
    /\ net.pc \in {"poll", "display"}

\* C13 - in sensor mode with power on and at least one open sensor, a render draws
\* the red marquee of the open sensors' names (not the clock), moves
\* sensor_scroll_pos down by the fixed step (half a pixel), and sets it back to the
\* matrix width once it is below minus the marquee's width.
C13_OpenMarquee ==
    [][ /\ CoreTick /\ core.power /\ core.show_sensors /\ SensorsWellTyped(core.sensors)
           /\ OpenDoors(core.sensors) # {} =>
              LET moved == core.sensor_scroll_pos - 5
              IN  /\ coreOut'.view = "marquee"
                  /\ core'.sensor_scroll_pos =
                        IF moved < 0 - 10 * MarqueeWidth(OpenDoors(core.sensors))
                        THEN WIDTH * 10 ELSE moved
        /\ SimTick /\ sim.power /\ sim.show_sensors /\ SensorsWellTyped(sim.sensors)
           /\ OpenDoors(sim.sensors) # {} =>
              LET moved == sim.sensor_scroll_pos - 5
              IN  /\ simOut'.view = "marquee"
                  /\ sim'.sensor_scroll_pos =
                        IF moved < 0 - 10 * MarqueeWidth(OpenDoors(sim.sensors))
                        THEN WIDTH * 10 ELSE moved
      ]_vars

\* the core Renderer has rendered sensor mode with a door open
C13_Witness ==
    /\ core.power /\ core.show_sensors /\ OpenDoors(core.sensors) # {}
    /\ coreOut.branch = "sensors" /\ ~coreOut.raised

\* C14 - in sensor mode with power on and no open sensor (the empty map of the
\* startup state included) every render draws the clock, on the device, the
\* simulator and the core Renderer alike.
C14_ClosedClock ==
    [][ /\ DevTick /\ dev.power_on /\ dev.show_sensors /\ SensorsWellTyped(dev.sensor_status)
           /\ OpenDoors(dev.sensor_status) = {} => devOut'.view = "clock"
        /\ SimTick /\ sim.power /\ sim.show_sensors /\ SensorsWellTyped(sim.sensors)
           /\ OpenDoors(sim.sensors) = {} => simOut'.view = "clock"
        /\ CoreTick /\ core.power /\ core.show_sensors /\ SensorsWellTyped(core.sensors)
           /\ OpenDoors(core.sensors) = {} => coreOut'.view = "clock"
      ]_vars

\* the device has rendered sensor mode while its sensors map was still empty
C14_Witness ==
    /\ dev.power_on /\ dev.show_sensors /\ dev.sensor_status = JEmptyObj
    /\ devOut.branch = "sensors"

\* ------------------------------------------------------------------------
\* The fire effect run tick after tick from the all-zero heat grid
\* ------------------------------------------------------------------------
MaxFireTicks == 3

\* random.randint(0, 3) per cell; per column random.random() < 0.7 and
\* random.randint(160, 255): the extremes and one mixed pattern of each
FireAnyDraws ==
    {[NoDraw EXCEPT !.cool = c, !.ign = g] :
        c \in {UniformCool(0), UniformCool(3), [cx \in Cols |-> [cy \in Rows |-> (cx + cy) % 4]]},
        g \in {UniformIgn(0), UniformIgn(160), UniformIgn(255),
               [cx \in Cols |-> IF cx % 2 = 0 THEN 200 ELSE 0]}}

\* the heat grid after each phase of one tick: cool down, rise, ignite
FirePhases(heat, rnd) ==
    LET cooled == FireCool(heat, rnd.cool)
        risen == FireRise(cooled)
    IN  <<cooled, risen, FireIgnite(risen, rnd.ign)>>

InitFire ==
    /\ dev = [DevInit EXCEPT !.show_sensors = FALSE, !.current_effect = S_fire]
    /\ sim = [SimInit EXCEPT !.show_sensors = FALSE, !.effect = S_fire]
    /\ core = [DisplayStateInit EXCEPT !.show_sensors = FALSE, !.effect = S_fire]
    /\ devOut = Idle
    /\ simOut = Idle
    /\ coreOut = Idle
    /\ powerSeen = "none"
    /\ ticks = 0
    /\ net = NetInit
    /\ calc = NoCalc

\* one frame of the fire effect on the device (Effects._fire), the simulator
\* (render_fire) and the core Renderer (_render_fire), given the same random draws
FireTick ==
    /\ ticks < MaxFireTicks
    /\ \E rnd \in FireAnyDraws :
          LET rd == update_display(dev, rnd)
              rs == render_display(sim, rnd)
              rc == Render(core, rnd)
          IN  /\ dev' = rd.st /\ devOut' = rd.out
              /\ sim' = rs.st /\ simOut' = rs.out
              /\ core' = rc.st /\ coreOut' = rc.out
              /\ calc' = [fn |-> "fire", arg |-> <<core.heat, rnd.cool, rnd.ign>>,
                           res |-> FirePhases(core.heat, rnd)]
    /\ ticks' = ticks + 1
    /\ UNCHANGED <<powerSeen, net>>

NextFire == FireTick
SpecFire == InitFire /\ [][NextFire]_vars

HeatInRange(heat) == \A cx \in Cols : \A cy \in Rows : heat[cx][cy] \in 0..255

\* C15 - from the all-zero grid, after any number of fire ticks with any draws,
\* every heat cell is an integer in 0..255: at the end of the tick, in all three
\* implementations, and after each of the phases cool down, rise and ignite.
C15_HeatRange ==
    /\ HeatInRange(core.heat) /\ HeatInRange(dev.heat) /\ HeatInRange(sim.heat)
    /\ calc.fn = "fire" =>
          /\ \A i \in 1..Len(calc.res) : HeatInRange(calc.res[i])
          /\ calc.res[Len(calc.res)] = core.heat
          /\ dev.heat = core.heat /\ sim.heat = core.heat

\* in one tick a cell cooler than its cooldown draw was held at 0, and a bottom
\* cell whose ignition would have passed 255 was held at 255
C15_Witness ==
    /\ calc.fn = "fire" /\ ticks >= 2
    /\ \E cx \in Cols : \E cy \in Rows :
          calc.arg[1][cx][cy] < calc.arg[2][cx][cy] /\ calc.res[1][cx][cy] = 0
    /\ \E cx \in Cols :
          calc.res[2][cx][0] + calc.arg[3][cx] > 255 /\ core.heat[cx][0] = 255

\* C16 - on the device, text_scroll_position is the matrix width right after every
\* text-set, sensor_scroll_pos is the matrix width right after every command that
\* turns sensor mode on (an accepted sensors-set, effect-set "clock"), and every
\* other command leaves the cursor as it was.
C16_CursorReseed ==
    [][\A topic \in Topics : \A msg \in PayloadsOf(topic) :
          Deliver(topic, msg) /\ dev.alive =>
              LET sensorsOn == \/ topic = "sensors" /\ JsonLoaded[msg].ok
                               \/ topic = "effect" /\ Lower(msg) = S_clock
              IN  /\ dev'.text_scroll_position =
                        IF topic = "text" THEN WIDTH ELSE dev.text_scroll_position
                  /\ dev'.sensor_scroll_pos =
                        IF sensorsOn THEN WIDTH ELSE dev.sensor_scroll_pos
      ]_vars

\* a command has been handled in sensor mode while the marquee's cursor was away
\* from the right edge, and the cursor is still away from it
C16_Witness ==
    /\ devOut.branch = "on_message" /\ dev.show_sensors
    /\ OpenDoors(dev.sensor_status) # {}
    /\ dev.sensor_scroll_pos # WIDTH

\* the waiting time the backoff rule prescribes after k failed attempts in a row,
\* in ms: 1 s doubling up to 60 s, the count starting over after 10 attempts
BackoffMs(k) == 1000 * <<1, 2, 4, 8, 16, 32, 60, 60, 60, 60>>[((k - 1) % 10) + 1]

\* C17 - after k reconnect attempts failed in a row the next attempt is made no
\* sooner than the backoff delay after the previous one (1 s, 2 s, 4 s, ... 60 s,
\* back to 1 s on the 11th attempt), so never less than 1 s after it; elapsed time
\* is measured up to GapCap.
C17_Backoff ==
    [][ LoopPoll /\ net'.did \in {"reconnected", "reconnect_failed"} /\ net.failures >= 1 =>
            net.gap >= Min(BackoffMs(net.failures), GapCap)
      ]_vars

\* two reconnect attempts have failed in a row
C17_Witness ==
    /\ net.did = "reconnect_failed"
    /\ net.failures >= 2

\* the main loop keeps iterating: `while True:` never waits on anything but
\* time.sleep(0.01)
SpecLoopFair == SpecLoop /\ WF_vars(LoopPoll) /\ WF_vars(LoopDisplay)

\* C18 - after every successful reconnect the session subscribes every command
\* topic, as after the initial connect, and the retained "online" has been published
\* on it; and after a reconnect that failed (the count of failures in a row stands
\* at k >= 1) a later loop iteration attempts the reconnect again (the count moves
\* on, up by another failure or back to 0 by a success).
C18_Resubscribe ==
    /\ [](net.did = "reconnected" => net.subs = Topics /\ net.online)
    /\ \A k \in 1..(MaxAttempts + 1) : (net.failures = k) ~> (net.failures # k)

\* a reconnect has failed at a subscribe, on a connection that stays healthy
C18_Witness ==
    /\ net.did = "reconnect_failed"
    /\ net.sock = "ok"
    /\ net.subs # {} /\ net.subs # Topics

\* C19 - network failure never stops rendering: whatever the poll block met (a
\* transport error, a failed reconnect), the iteration goes on to the display
\* update, and no failure of the link or the transport ends the program.
C19_RenderingGoesOn ==
    [][ /\ LoopPoll => net'.pc = "display"
        /\ net'.pc # "dead"
      ]_vars

\* the display update has run in an iteration whose reconnect attempt failed
C19_Witness ==
    /\ net.did = "reconnect_failed" /\ net.sock = "broken"
    /\ net.pc = "poll"
    /\ devOut.branch = "sensors"

\* ------------------------------------------------------------------------
\* core.py hsv_to_rgb at full saturation and value
\* ------------------------------------------------------------------------
Hues == 0..359

\* int((ch + m) * 255) for the channel holding x = c * (1 - abs((h / 60) % 2 - 1)),
\* with c = 1 and m = 0: x is k/60 for k = 60 - |h mod 120 - 60|. The float
\* product lies within rounding of k * 255 / 60; where that quotient is a whole
\* number other than 0 or 255, int() yields it or, when the product fell short
\* (low), the number below it.
XChannel(h, low) ==
    LET d == (h % 120) - 60
        k == 60 - (IF d < 0 THEN 0 - d ELSE d)
        e == k * 255
    IN  IF e % 60 = 0 /\ k # 0 /\ k # 60 /\ low THEN (e \div 60) - 1 ELSE e \div 60

\* hsv_to_rgb with the branches of sectors 3 and 4 (180..299) exchanged
hsv_to_rgb_Exchanged(h0, low) ==
    LET h == h0 % 360
        c == 255
        x == XChannel(h, low)
    IN  IF h < 60 THEN <<c, x, 0>>
        ELSE IF h < 120 THEN <<x, c, 0>>
        ELSE IF h < 180 THEN <<0, c, x>>
        ELSE IF h < 240 THEN <<x, 0, c>>
        ELSE IF h < 300 THEN <<0, x, c>>
        ELSE <<c, 0, x>>

\* hsv_to_rgb(h0, 1.0, 1.0)
hsv_to_rgb(h0, low) ==
    LET h == h0 % 360
        c == 255
        x == XChannel(h, low)
    IN  IF h < 60 THEN <<c, x, 0>>
        ELSE IF h < 120 THEN <<x, c, 0>>
        ELSE IF h < 180 THEN <<0, c, x>>
        ELSE IF h < 240 THEN <<0, x, c>>
        ELSE IF h < 300 THEN <<x, 0, c>>
        ELSE <<c, 0, x>>

InitHsv ==
    /\ dev = DevInit
    /\ sim = SimInit
    /\ core = DisplayStateInit
    /\ devOut = Idle
    /\ simOut = Idle
    /\ coreOut = Idle
    /\ powerSeen = "none"
    /\ ticks = 0
    /\ net = NetInit
    /\ calc = NoCalc

\* one call hsv_to_rgb(h, 1.0, 1.0)
HsvApply ==
    /\ \E h \in Hues, low \in BOOLEAN :
          calc' = [fn |-> "hsv_to_rgb", arg |-> <<h>>, res |-> hsv_to_rgb(h, low)]
    /\ UNCHANGED <<dev, sim, core, devOut, simOut, coreOut, powerSeen, ticks, net>>

NextHsv == HsvApply
SpecHsv == InitHsv /\ [][NextHsv]_vars

\* C20 - for every integer hue h in 0..359, hsv_to_rgb(h, 1, 1) returns three
\* channels in 0..255; the channel holding 255 and the channel holding 0 are those
\* of h's 60-degree sector ((c,x,0), (x,c,0), (0,c,x), (0,x,c), (x,0,c), (c,0,x));
\* and hues 0, 120 and 240 give pure red, green and blue.
C20_HsvSectors ==
    calc.fn = "hsv_to_rgb" =>
        LET h == calc.arg[1]
            rgb == calc.res
            full == <<1, 2, 2, 3, 3, 1>>[(h \div 60) + 1]
            zero == <<3, 3, 1, 1, 2, 2>>[(h \div 60) + 1]
        IN  /\ Len(rgb) = 3 /\ \A i \in 1..3 : rgb[i] \in 0..255
            /\ rgb[full] = 255 /\ rgb[zero] = 0
            /\ h = 0 => rgb = <<255, 0, 0>>
            /\ h = 120 => rgb = <<0, 255, 0>>
            /\ h = 240 => rgb = <<0, 0, 255>>

\* a hue inside the fourth sector has been converted: green in between, blue full
C20_Witness ==
    /\ calc.fn = "hsv_to_rgb" /\ calc.arg[1] = 200
    /\ calc.res[2] \in 1..254 /\ calc.res[3] = 255

\* ------------------------------------------------------------------------
\* simulator.py as its two threads: client.loop_forever() running on_message,
\* and animation_loop running render_display every 50 ms, with no lock between
\* them; a thread switch can fall between any two statements
\* ------------------------------------------------------------------------
\* mqtt_pc: the statement of on_message the MQTT thread is about to run;
\* anim_pc: "idle" between renders, "store" and "wrap" inside
\* render_scrolling_text after `text_scroll_pos -= 0.4` has loaded the cursor;
\* anim_read: the cursor value loaded; anim_text: the local `text`
SimThreadsInit ==
    [mqtt_pc |-> "idle", anim_pc |-> "idle", anim_read |-> 0, anim_text |-> S_empty] @@ SimInit

InitThreads ==
    /\ dev = DevInit
    /\ sim = SimThreadsInit
    /\ core = DisplayStateInit
    /\ devOut = Idle
    /\ simOut = Idle
    /\ coreOut = Idle
    /\ powerSeen = "none"
    /\ ticks = 0
    /\ net = NetInit
    /\ calc = NoCalc

\* on_message, one Display State write per step. A text-set "Hi": text, effect,
\* show_sensors, text_scroll_pos. An effect-set "Clock": effect = "clock",
\* show_sensors, text, effect = "none". publish_state follows the last write.
MqttStep ==
    /\ \/ /\ sim.mqtt_pc = "idle"
          /\ \/ sim' = [sim EXCEPT !.text = <<"H","i">>, !.mqtt_pc = "text_effect"]
             \/ sim' = [sim EXCEPT !.effect = Lower(<<"C","l","o","c","k">>),
                                   !.mqtt_pc = "clock_show"]
       \/ /\ sim.mqtt_pc = "text_effect"
          /\ sim' = [sim EXCEPT !.effect = S_none, !.mqtt_pc = "text_show"]
       \/ /\ sim.mqtt_pc = "text_show"
          /\ sim' = [sim EXCEPT !.show_sensors = FALSE, !.mqtt_pc = "text_cursor"]
       \/ /\ sim.mqtt_pc = "text_cursor"
          /\ sim' = [sim EXCEPT !.text_scroll_pos = WIDTH * 10, !.mqtt_pc = "idle"]
       \/ /\ sim.mqtt_pc = "clock_show"
          /\ sim' = [sim EXCEPT !.show_sensors = TRUE, !.mqtt_pc = "clock_text"]
       \/ /\ sim.mqtt_pc = "clock_text"
          /\ sim' = [sim EXCEPT !.text = S_empty, !.mqtt_pc = "clock_effect"]
       \/ /\ sim.mqtt_pc = "clock_effect"
          /\ sim' = [sim EXCEPT !.effect = S_none, !.mqtt_pc = "idle"]
    /\ simOut' = IF sim'.mqtt_pc = "idle"
                 THEN Out("on_message", "none", {}, FALSE, <<SimReport(sim')>>)
                 ELSE Idle
    /\ UNCHANGED <<dev, core, devOut, coreOut, powerSeen, ticks, net, calc>>

\* render_display up to the load of the cursor in render_scrolling_text; in the
\* other branches the whole call
AnimRender ==
    /\ sim.anim_pc = "idle"
    /\ IF render_display_branch(sim) = "text"
       THEN /\ sim' = [sim EXCEPT !.anim_pc = "store", !.anim_read = sim.text_scroll_pos,
                                  !.anim_text = sim.text]
            /\ simOut' = render_scrolling_text(sim).out
       ELSE LET r == render_display(sim, NoDraw)
            IN  sim' = r.st /\ simOut' = r.out
    /\ UNCHANGED <<dev, core, devOut, coreOut, powerSeen, ticks, net, calc>>

\* the store of `text_scroll_pos -= 0.4`
AnimStore ==
    /\ sim.anim_pc = "store"
    /\ sim' = [sim EXCEPT !.text_scroll_pos = sim.anim_read - 4, !.anim_pc = "wrap"]
    /\ simOut' = Idle
    /\ UNCHANGED <<dev, core, devOut, coreOut, powerSeen, ticks, net, calc>>

\* `if text_scroll_pos < -text_width: text_scroll_pos = WIDTH`
AnimWrap ==
    /\ sim.anim_pc = "wrap"
    /\ sim' = [sim EXCEPT !.text_scroll_pos =
                              IF FallsBelow(@, measure_text(sim.anim_text)) THEN WIDTH * 10 ELSE @,
                          !.anim_pc = "idle"]
    /\ simOut' = Idle
    /\ UNCHANGED <<dev, core, devOut, coreOut, powerSeen, ticks, net, calc>>

NextThreads == MqttStep \/ AnimRender \/ AnimStore \/ AnimWrap
SpecThreads == InitThreads /\ [][NextThreads]_vars

\* C21 - command handling and rendering never interleave in the simulator: no step
\* of a render runs between the first and the last Display State write of a
\* command, and the cursor a render stores is the decrement of the cursor as it
\* stands, so a text-set's reset to 16 is never overwritten from a stale read.
C21_NoInterleaving ==
    [][ /\ AnimRender \/ AnimStore \/ AnimWrap => sim.mqtt_pc = "idle"
        /\ AnimStore => sim.anim_read = sim.text_scroll_pos
      ]_vars

\* a text-set has completed, resetting the cursor, while a render that had loaded
\* the old cursor is about to store its decrement
C21_Witness ==
    /\ sim.mqtt_pc = "idle" /\ sim.anim_pc = "store"
    /\ sim.text_scroll_pos = WIDTH * 10
    /\ sim.anim_read # sim.text_scroll_pos

\* the effect memory and cursor a render branch owns
OwnMemory(branch) ==
    CASE branch = "fire" -> {"heat"}
      [] branch = "sparkle" -> {"sparkles"}
      [] branch = "matrix" -> {"drops"}
      [] branch = "text" -> {"text_scroll_pos"}
      [] OTHER -> {}

\* C22 - a powered render call of the core Renderer runs exactly one branch (the
\* sensor view, one named effect, the scrolling text or the solid fill), the one its
\* precedence selects; of heat, sparkles, drops, text_scroll_pos and
\* sensor_scroll_pos it changes at most the one that branch owns (none for rainbow,
\* plasma, gradient, solid and the sensor view); and it changes none of power,
\* brightness, color, effect, text, sensors, show_sensors. (The frame counter, which
\* every powered render advances, is not one of these memories.)
C22_OwnMemoryOnly ==
    [][ CoreTick /\ core.power =>
          LET b == coreOut'.branch
          IN  /\ b = RenderBranch(core)
              /\ b \in {"sensors", "rainbow", "fire", "plasma", "matrix", "sparkle",
                        "gradient", "text", "solid"}
              /\ \A f \in {"heat", "sparkles", "drops", "text_scroll_pos", "sensor_scroll_pos"}
                           \ OwnMemory(b) : core'[f] = core[f]
              /\ \A f \in {"power", "brightness", "color", "effect", "text", "sensors",
                           "show_sensors"} : core'[f] = core[f]
      ]_vars

\* a fire tick has changed the heat grid and left the sparkle list that was there
C22_Witness ==
    /\ coreOut.branch = "fire"
    /\ core.heat # ZeroHeat /\ core.heat # WarmHeat
    /\ core.sparkles = OneSparkle

\* ------------------------------------------------------------------------
\* The sparkle effect run tick after tick from an empty sparkle list
\* ------------------------------------------------------------------------
MaxSparkleTicks == 12

\* random.random() < 0.3 or not; the position and hue drawn do not matter to the fade
SparkleAnyDraws ==
    {[NoDraw EXCEPT !.spawn = [on |-> o, x |-> 1, y |-> 1, hue |-> 40], !.above = a] :
        o \in BOOLEAN, a \in BOOLEAN}

InitSparkle ==
    /\ dev = [DevInit EXCEPT !.show_sensors = FALSE, !.current_effect = S_sparkle]
    /\ sim = SimInit
    /\ core = [DisplayStateInit EXCEPT !.show_sensors = FALSE, !.effect = S_sparkle]
    /\ devOut = Idle
    /\ simOut = Idle
    /\ coreOut = Idle
    /\ powerSeen = "none"
    /\ ticks = 0
    /\ net = NetInit
    /\ calc = NoCalc

\* one frame of the sparkle effect on the core Renderer (_render_sparkle) and on
\* the device (Effects._sparkle), given the same spawn draw
SparkleTick ==
    /\ ticks < MaxSparkleTicks
    /\ \E rnd \in SparkleAnyDraws :
          LET rd == update_display(dev, rnd)
              rc == Render(core, rnd)
          IN  /\ dev' = rd.st /\ devOut' = rd.out
              /\ core' = rc.st /\ coreOut' = rc.out
    /\ ticks' = ticks + 1
    /\ UNCHANGED <<sim, simOut, powerSeen, net, calc>>

NextSparkle == SparkleTick
SpecSparkle == InitSparkle /\ [][NextSparkle]_vars

\* fades an entry has been through, spawned at 1.0
SparkleAge(sp) == 10 - sp.brightness

\* C23 (as stated) - after every sparkle tick every entry's brightness is above 0
\* and at most 1.0, and an entry spawned at 1.0 is gone after at most 10 further
\* ticks: no entry in the list has been through 10 fades.
C23_GoneAfterTen ==
    /\ \A i \in 1..Len(core.sparkles) :
          core.sparkles[i].brightness <= 10 /\ SparkleAge(core.sparkles[i]) < 10
    /\ \A i \in 1..Len(dev.sparkles) :
          dev.sparkles[i].brightness <= 10 /\ SparkleAge(dev.sparkles[i]) < 10

\* C23 (amended) - after every sparkle tick every entry's brightness is above 0 (at
\* nominal tenth 0 it is the positive float residue) and at most 1.0, and an entry
\* spawned at 1.0 is gone after at most 11 further ticks: no entry in the list has
\* been through 11 fades.
C23_GoneAfterEleven ==
    /\ \A i \in 1..Len(core.sparkles) :
          core.sparkles[i].brightness <= 10 /\ SparkleAge(core.sparkles[i]) < 11
    /\ \A i \in 1..Len(dev.sparkles) :
          dev.sparkles[i].brightness <= 10 /\ SparkleAge(dev.sparkles[i]) < 11

\* an entry is still in the core Renderer's list after its tenth fade, and the list
\* of twelve ticks ago has been emptied of it
C23_Witness ==
    /\ coreOut.branch = "sparkle"
    /\ \E i \in 1..Len(core.sparkles) : SparkleAge(core.sparkles[i]) = 10
    /\ ticks >= 11

\* ---------------------------------------------------------------------------
\* Text scrolling under a fixed text (core.py _render_text, simulator.py
\* render_scrolling_text)
\* ---------------------------------------------------------------------------

MaxScrollTicks == 100

\* measured widths 9 (odd), 8 (even, the double cursor passes just below -8 at
\* tick 60) and 22 (even, the double cursor stops just above -22 at tick 95)
ScrollTexts == {<<"H","i">>, <<"I","I">>, <<"H","H","H","H","!">>}

InitScroll ==
    /\ \E t \in ScrollTexts :
          /\ sim = [SimInit EXCEPT !.show_sensors = FALSE, !.text = t]
          /\ core = [DisplayStateInit EXCEPT !.show_sensors = FALSE, !.text = t]
    /\ dev = DevInit
    /\ devOut = Idle
    /\ simOut = Idle
    /\ coreOut = Idle
    /\ powerSeen = "none"
    /\ ticks = 0
    /\ net = NetInit
    /\ calc = NoCalc

\* one frame of both hosts: animation_loop calls render_display, the core's host
\* calls Renderer.render
ScrollTick ==
    /\ ticks < MaxScrollTicks
    /\ LET rs == render_display(sim, NoDraw)
           rc == Render(core, NoDraw)
       IN  /\ sim' = rs.st /\ simOut' = rs.out
           /\ core' = rc.st /\ coreOut' = rc.out
    /\ ticks' = ticks + 1
    /\ UNCHANGED <<dev, devOut, powerSeen, net, calc>>

\* animation_loop going on after the core's host has stopped asking for frames
SimScrollTick ==
    /\ ticks = MaxScrollTicks
    /\ LET r == render_display(sim, NoDraw)
       IN  /\ sim' = r.st
           /\ simOut' = r.out
    /\ UNCHANGED <<dev, core, devOut, coreOut, powerSeen, ticks, net, calc>>

NextScroll == ScrollTick \/ SimScrollTick

\* animation_loop is a `while True`, and the core is asked for its frames
SpecScroll ==
    InitScroll /\ [][NextScroll]_vars /\ WF_vars(ScrollTick) /\ WF_vars(SimScrollTick)

\* the step the claim describes, for a cursor going from pos to pos2 under a
\* text of width w (tenths of a pixel): down by 0.4, or back to 16 when the
\* lowered cursor is below -w; where it lands on -w the rounding of the double
\* decides
ScrollStepOk(pos, pos2, w) ==
    /\ \/ pos2 = pos - 4 /\ pos - 4 >= 0 - 10 * w
       \/ pos2 = WIDTH * 10 /\ pos - 4 <= 0 - 10 * w
    /\ 0 - 10 * w <= pos2
    /\ pos2 <= WIDTH * 10

\* C24: in text mode under a fixed non-empty text of measured width w, every
\* render tick lowers text_scroll_pos by 0.4 or, when that would take it below
\* -w, resets it to 16; after every tick -w <= text_scroll_pos <= 16; and the
\* cursor is at 16 again and again while text mode lasts.
C24_ScrollCycle ==
    /\ [][ /\ ScrollTick \/ SimScrollTick =>
                /\ simOut'.branch = "text"
                /\ ScrollStepOk(sim.text_scroll_pos, sim'.text_scroll_pos,
                                measure_text(sim.text))
           /\ ScrollTick =>
                /\ coreOut'.branch = "text"
                /\ ScrollStepOk(core.text_scroll_pos, core'.text_scroll_pos,
                                measure_text(core.text))
         ]_vars
    /\ []<>(sim.text_scroll_pos = WIDTH * 10 /\ simOut.branch = "text")
    /\ (ticks = 0) ~> (core.text_scroll_pos = WIDTH * 10 /\ ticks > 0)

\* both cursors have wrapped: back at 16 after at least one render each
C24_Witness ==
    /\ coreOut.branch = "text" /\ core.text_scroll_pos = WIDTH * 10
    /\ core.frame = 60 /\ measure_text(core.text) = 8
    /\ simOut.branch = "text" /\ sim.text_scroll_pos = WIDTH * 10

\* ---------------------------------------------------------------------------
\* Brightness under commands with integers of any size
\* ---------------------------------------------------------------------------

\* one message on a command topic, handled by both on_message handlers; the
\* brightness topic also carries integers outside 0..255
WidePayloadsOf(topic) ==
    IF topic = "brightness" THEN BrightnessPayloads \cup WideBrightnessPayloads
    ELSE PayloadsOf(topic)

WideCommand == \E topic \in Topics : \E msg \in WidePayloadsOf(topic) : Deliver(topic, msg)

SpecWide == Init /\ [][WideCommand]_vars

\* C25: in every state reachable by commands, brightness is an integer in 0..255
\* (the simulator's state["brightness"]; the device's current_brightness as
\* publish_state reports it, and as a fraction 0..1 of 255), also after a
\* brightness-set with an integer payload such as "300" or "-5".
C25_BrightnessInRange ==
    /\ sim.brightness \in 0..255
    /\ MainReport(dev).brightness \in 0..255
    /\ dev.current_brightness.num >= 0
    /\ dev.current_brightness.num <= dev.current_brightness.den

\* a brightness-set "-5" has been handled by both
C25_Witness ==
    /\ sim.brightness = 0 - 5
    /\ dev.current_brightness = [num |-> 0 - 5, den |-> 255]
    /\ devOut.pub = <<MainReport(dev)>>
    /\ MainReport(dev).brightness = 0 - 5

\* ---------------------------------------------------------------------------
\* Rendering under an effect name that is no effect
\* ---------------------------------------------------------------------------

\* the effect memories of the three hosts
CoreEffectMemory(c) == <<c.heat, c.sparkles, c.drops>>
DevEffectMemory(d) == <<d.heat, d.sparkles, d.drops>>

\* C26: with power on and show_sensors false, a render under an effect name that
\* is not one of rainbow, fire, plasma, sparkle, matrix, gradient does what the
\* same render does under "none": it draws the scrolling text when text # "" and
\* the solid fill otherwise, and leaves every effect memory as it was.
C26_UnknownEffectIsNone ==
    [][ /\ CoreTick /\ core.power /\ ~core.show_sensors /\ core.effect \notin EFFECTS =>
              LET r == Render([core EXCEPT !.effect = S_none], NoDraw)
              IN  /\ coreOut'.branch = (IF core.text # S_empty THEN "text" ELSE "solid")
                  /\ coreOut' = r.out
                  /\ core' = [r.st EXCEPT !.effect = core.effect]
                  /\ CoreEffectMemory(core') = CoreEffectMemory(core)
        /\ DevTick /\ dev.power_on /\ ~dev.show_sensors /\ dev.current_effect \notin EFFECTS =>
              /\ devOut'.branch = (IF dev.current_text # S_empty THEN "text" ELSE "solid")
              /\ \E rnd \in TimerDraws :
                    LET r == update_display([dev EXCEPT !.current_effect = S_none], rnd)
                    IN  /\ devOut' = r.out
                        /\ dev' = [r.st EXCEPT !.current_effect = dev.current_effect]
              /\ DevEffectMemory(dev') = DevEffectMemory(dev)
              /\ dev'.frame = dev.frame
        /\ SimTick /\ sim.power /\ ~sim.show_sensors /\ sim.effect \notin EFFECTS =>
              LET r == render_display([sim EXCEPT !.effect = S_none], NoDraw)
              IN  /\ simOut'.branch = (IF sim.text # S_empty THEN "text" ELSE "solid")
                  /\ simOut' = r.out
                  /\ sim' = [r.st EXCEPT !.effect = sim.effect]
                  /\ sim'.heat = sim.heat
      ]_vars

\* the core has rendered under effect "disco" with a text and warm effect memory:
\* the text was drawn and scrolled, the memory is as it was
C26_Witness ==
    /\ core.effect = S_disco /\ core.power /\ ~core.show_sensors
    /\ core.text # S_empty /\ coreOut.branch = "text"
    /\ core.text_scroll_pos = WIDTH * 10 - 4
    /\ core.heat = WarmHeat /\ core.sparkles = OneSparkle

\* ---------------------------------------------------------------------------
\* The two on_message handlers side by side
\* ---------------------------------------------------------------------------

\* the mode state of each handler's program in the terms of the Display State,
\* brightness as the integer publish_state reports
DevModeState(d) ==
    [power |-> d.power_on, color |-> d.current_color, effect |-> d.current_effect,
     text |-> d.current_text, show_sensors |-> d.show_sensors,
     sensors |-> d.sensor_status, brightness |-> MainReport(d).brightness]
SimModeState(st) ==
    [power |-> st.power, color |-> st.color, effect |-> st.effect,
     text |-> st.text, show_sensors |-> st.show_sensors,
     sensors |-> st.sensors, brightness |-> SimReport(st).brightness]

\* a command moved a cursor of either program only by setting it to 16 in both
\* (the device counts whole pixels, the simulator tenths)
SameReset(dOld, dNew, sOld, sNew) ==
    /\ dNew \in {dOld, WIDTH}
    /\ sNew \in {sOld, WIDTH * 10}
    /\ (dNew # dOld \/ sNew # sOld) => (dNew = WIDTH /\ sNew = WIDTH * 10)

\* what the two handlers do to the cursors on this command, in the step taken and
\* with both cursors of both programs 3 pixels into their scroll
CursorsAgree(topic, msg) ==
    LET d == [dev EXCEPT !.text_scroll_position = 3, !.sensor_scroll_pos = 3]
        s == [sim EXCEPT !.text_scroll_pos = 30, !.sensor_scroll_pos = 30]
        d2 == MainOnMessage(d, topic, msg)
        s2 == SimOnMessage(s, topic, msg)
    IN  /\ SameReset(dev.text_scroll_position, dev'.text_scroll_position,
                     sim.text_scroll_pos, sim'.text_scroll_pos)
        /\ SameReset(dev.sensor_scroll_pos, dev'.sensor_scroll_pos,
                     sim.sensor_scroll_pos, sim'.sensor_scroll_pos)
        /\ SameReset(3, d2.text_scroll_position, 30, s2.text_scroll_pos)
        /\ SameReset(3, d2.sensor_scroll_pos, 30, s2.sensor_scroll_pos)

====
